---- MODULE Spec2Model ----
(***************************************************************************)
(* Lending-workflow backend: the loan lifecycle engine (LoanService), the  *)
(* KYC readiness engine (KYCService) and the persistent store they share.  *)
(*                                                                         *)
(* The store is the state: users, loans, loan documents, the audit trail   *)
(* and the KYC documents.  Two views of the handlers are given over the    *)
(* same checks and the same transactions:                                  *)
(*   - Spec      every service call runs to completion (one action per     *)
(*               handler) and leaves its outcome in `response`;            *)
(*   - SpecConc  calls run concurrently, one step per awaited store access *)
(*               (findUnique, user lookup / readiness query, $transaction) *)
(*               with the position of each in-flight call in `req`.        *)
(***************************************************************************)
EXTENDS Integers, Sequences, FiniteSets, Bags, TLC

\* ------------------------------------------------------------------ bounds
MaxLoans == 1          \* loan rows the store may hold
MaxAudit == 3          \* assignBanker is served while the audit trail is shorter
                       \* (re-assignment is the one loop of the lifecycle)
NumProcs == 2          \* concurrent in-flight requests (SpecConc)
MaxDocsPerApp == 2     \* documents submitted with one application
MaxFailedAttempts == 6  \* wrong passwords are tried while the counter is below this
MaxTokens == 3          \* RefreshToken rows of the rotation drill
MaxKycDocs == 2        \* KYC document rows created by generateUploadUrl

\* ------------------------------------------------------------------ program constants
KycMaxFileSize == 5242880
LOCK_THRESHOLD == 5   \* process.env.KYC_MAX_FILE_SIZE || '5242880'

\* ------------------------------------------------------------------ values
Null == "null"
NoRate == << >>        \* interestRate absent (null / undefined)

Merchants == {"M1", "M2"}
Customers == {"C1", "N1"}          \* N1: the customer an application creates inline
Bankers == {"B1", "B2"}
Admins == {"A1"}
UserIds == Merchants \cup Customers \cup Bankers \cup Admins

Role(u) ==
  IF u \in Merchants THEN "MERCHANT"
  ELSE IF u \in Customers THEN "CUSTOMER"
  ELSE IF u \in Bankers THEN "BANKER"
  ELSE "ADMIN"

LoanStatuses ==
  {"DRAFT", "SUBMITTED", "UNDER_REVIEW", "APPROVED", "REJECTED", "DISBURSED", "CANCELLED"}
TerminalStatuses == {"REJECTED", "DISBURSED", "CANCELLED"}

KycTypes == {"ID_PROOF", "ADDRESS_PROOF", "PAN_CARD", "BANK_STATEMENT"}

\* Reference data owned by admins: code (the KYC loan-type hint) and the
\* document-type tags an application must carry.
LoanTypes ==
  [ LT1 |-> [code |-> "PERSONAL", hasSchema |-> FALSE, requiredDocuments |-> << >>],
    LT2 |-> [code |-> "BUSINESS", hasSchema |-> TRUE,
             requiredDocuments |-> <<"ID_PROOF", "PAN_CARD">>] ]
LoanTypeIds == DOMAIN LoanTypes

\* ------------------------------------------------------------------ state
VARIABLES
  users,       \* ids of the User rows that exist
  emails,      \* email column of User (unique), as a function over users
  userStatus,  \* status column of the User rows the admin console manages
  auth,        \* login state: failedLoginAttempts and lockoutUntil per user, the users
               \* holding a stored refresh token and those holding a 2FA temp token,
               \* and (token rotation) the RefreshToken rows one by one
  customerMerchant, \* customerProfile.merchantId: the merchant a customer belongs to
  loans,       \* Loan table: sequence of rows, a loan's id is its index
  documents,   \* Document table (loan attachments): a bag of rows
  auditLog,    \* AuditLog table: a bag of rows
  kycDocs,     \* KYCDocument table: function from document id to row
  req,         \* SpecConc: the position and arguments of each in-flight call
  response,    \* Spec: the call just served and its outcome
  appended     \* Spec: the rows the call just served added to the Notification and
               \* KYCAuditLog tables (tables the services only ever append to)

vars == <<users, userStatus, auth, emails, customerMerchant, loans, documents, auditLog, kycDocs, req, response,
          appended>>

NoLoan == [status |-> "NONE"]
GetLoan(id) == IF id \in 1..Len(loans) THEN loans[id] ELSE NoLoan

Idle == [pc |-> "idle"]
NoResponse == [op |-> "none"]
NoAppended == [notifications |-> << >>, attempts |-> 0, kycAudit |-> << >>]

\* the accounts that log in: C1 by password, M1 with two-factor login enabled
AuthUsers == {"C1", "M1"}
TwoFactorUsers == {"M1"}
NoAuth ==
  [ failedLoginAttempts |-> [u \in AuthUsers |-> 0],
    lockout |-> [u \in AuthUsers |-> "none"],   \* lockoutUntil: none, inForce, elapsed
    refreshTokens |-> {},
    tempTokens |-> {},
    refreshTokenRows |-> << >> ]

\* ------------------------------------------------------------------ sequences
RECURSIVE SeqFilterOut(_, _)
\* s without the elements that are in the set out (Array.prototype.filter)
SeqFilterOut(s, out) ==
  IF s = << >> THEN << >>
  ELSE IF Head(s) \in out THEN SeqFilterOut(Tail(s), out)
  ELSE <<Head(s)>> \o SeqFilterOut(Tail(s), out)

Range(s) == {s[i] : i \in DOMAIN s}

RECURSIVE SeqDedupe(_)
\* [...new Set(s)]: first occurrences, in order
SeqDedupe(s) ==
  IF s = << >> THEN << >>
  ELSE <<Head(s)>> \o SeqDedupe(SeqFilterOut(Tail(s), {Head(s)}))

\* String.prototype.startsWith over token sequences
StartsWith(s, prefix) ==
  /\ Len(s) >= Len(prefix)
  /\ SubSeq(s, 1, Len(prefix)) = prefix

\* ------------------------------------------------------------------ KYC readiness
\* KYCService.getRequiredDocuments: the required type tags, in order
getRequiredDocuments(userRole, loanType) ==
  LET base == CASE userRole = "CUSTOMER" -> <<"ID_PROOF", "ADDRESS_PROOF", "PAN_CARD">>
                [] userRole = "MERCHANT" ->
                     <<"ID_PROOF", "ADDRESS_PROOF", "PAN_CARD", "BANK_STATEMENT">>
                [] OTHER -> << >>
      extra == CASE loanType = "BUSINESS" -> <<"BANK_STATEMENT">>
                 [] loanType = "VEHICLE" -> <<"ADDRESS_PROOF">>
                 [] loanType = "EQUIPMENT" -> <<"BANK_STATEMENT">>
                 [] OTHER -> << >>
  IN IF loanType # Null THEN SeqDedupe(base \o extra) ELSE base

\* faulty variant of RoundPercent: the quotient is truncated
RoundPercent_floor(x, n) == (100 * x) \div n

\* Math.round(x / n * 100) for 0 <= x <= n, n > 0
RoundPercent(x, n) == (200 * x + n) \div (2 * n)

\* KYCService.isKYCComplete over a given KYCDocument table
isKYCCompleteIn(docs, userId, userRole, loanType) ==
  LET verifiedTypes ==
        {docs[d].type : d \in {k \in DOMAIN docs :
                                 docs[k].userId = userId /\ docs[k].status = "VERIFIED"}}
      requiredTypes == getRequiredDocuments(userRole, loanType)
      missingTypes == SeqFilterOut(requiredTypes, verifiedTypes)
      percentComplete ==
        IF Len(requiredTypes) > 0
        THEN RoundPercent(Len(requiredTypes) - Len(missingTypes), Len(requiredTypes))
        ELSE 0
  IN [ complete |-> Len(missingTypes) = 0 /\ Len(requiredTypes) > 0,
       missingTypes |-> missingTypes,
       percentComplete |-> percentComplete,
       requiredTypes |-> requiredTypes,
       verifiedCount |-> Len(requiredTypes) - Len(missingTypes) ]

isKYCComplete(userId, userRole, loanType) ==
  isKYCCompleteIn(kycDocs, userId, userRole, loanType)

\* loan.loanType?.code || loan.loanType?.name || null
loanTypeHint(loan) == LoanTypes[loan.loanTypeId].code

\* ------------------------------------------------------------------ inputs
LoanIdInputs == 1..(MaxLoans + 1)        \* the last id never resolves
RateInputs == {NoRate, <<0>>, <<-1>>, <<12>>}
TextInputs == {"", "text"}               \* notes / referenceId / reason
AssignTargets == Bankers \cup {"M2", "U9"}   \* U9: no such user
CancelActors == {"M1", "C1", "M2", "B1"}

\* ------------------------------------------------------------------ loan lifecycle: checks
\* Each operator is the handler's chain of guards up to its next awaited call,
\* in the order the code evaluates them; the value names the error thrown.

\* faulty variant of assignBankerFind: a loan under review cannot be assigned again
assignBankerFind_submittedOnly(loan) ==
  IF loan = NoLoan THEN "NotFound"
  ELSE IF loan.status # "SUBMITTED" THEN "InvalidState"
  ELSE "ok"

\* LoanService.assignBanker: after prisma.loan.findUnique
assignBankerFind(loan) ==
  IF loan = NoLoan THEN "NotFound"
  ELSE IF loan.status \notin {"SUBMITTED", "UNDER_REVIEW"} THEN "InvalidState"
  ELSE "ok"

\* LoanService.assignBanker: after prisma.user.findUnique (the banker)
assignBankerLookup(bankerId) ==
  IF bankerId \notin users \/ Role(bankerId) # "BANKER" THEN "BankerNotFound" ELSE "ok"

\* !interestRate || interestRate <= 0
InvalidRate(interestRate) ==
  \/ interestRate = NoRate
  \/ interestRate[1] = 0
  \/ interestRate[1] <= 0

\* LoanService.approveLoan: after prisma.loan.findUnique
approveLoanFind(loan, bankerId, interestRate) ==
  IF loan = NoLoan THEN "NotFound"
  ELSE IF loan.status # "UNDER_REVIEW" THEN "InvalidState"
  ELSE IF loan.bankerId # bankerId THEN "Forbidden"
  ELSE IF InvalidRate(interestRate) THEN "Validation"
  ELSE "ok"

\* faulty variant of approveLoanKyc: the readiness verdict is ignored
approveLoanKyc_ignored(kyc) == "ok"

\* LoanService.approveLoan: after kycService.isKYCComplete
approveLoanKyc(kyc) == IF ~kyc.complete THEN "KYC_INCOMPLETE" ELSE "ok"

\* faulty variant of rejectLoanFind: the rejection reason is optional
rejectLoanFind_notesOptional(loan, bankerId, notes) ==
  IF loan = NoLoan THEN "NotFound"
  ELSE IF loan.status # "UNDER_REVIEW" THEN "InvalidState"
  ELSE IF loan.bankerId # bankerId THEN "Forbidden"
  ELSE "ok"

\* LoanService.rejectLoan: after prisma.loan.findUnique
rejectLoanFind(loan, bankerId, notes) ==
  IF loan = NoLoan THEN "NotFound"
  ELSE IF loan.status # "UNDER_REVIEW" THEN "InvalidState"
  ELSE IF loan.bankerId # bankerId THEN "Forbidden"
  ELSE IF notes = "" THEN "Validation"
  ELSE "ok"

\* faulty variant of disburseLoanFind: the banker is compared before the status
disburseLoanFind_bankerFirst(loan, bankerId, referenceId) ==
  IF loan = NoLoan THEN "NotFound"
  ELSE IF loan.bankerId # bankerId THEN "Forbidden"
  ELSE IF loan.status # "APPROVED" THEN "InvalidState"
  ELSE IF referenceId = "" THEN "Validation"
  ELSE "ok"

\* LoanService.disburseLoan: after prisma.loan.findUnique
disburseLoanFind(loan, bankerId, referenceId) ==
  IF loan = NoLoan THEN "NotFound"
  ELSE IF loan.status # "APPROVED" THEN "InvalidState"
  ELSE IF loan.bankerId # bankerId THEN "Forbidden"
  ELSE IF referenceId = "" THEN "Validation"
  ELSE "ok"

\* faulty variant of cancelLoanFind: the status is tested before the caller
cancelLoanFind_statusFirst(loan, userId) ==
  IF loan = NoLoan THEN "NotFound"
  ELSE IF loan.status \notin {"DRAFT", "SUBMITTED", "UNDER_REVIEW", "APPROVED"}
    THEN "InvalidState"
  ELSE IF loan.applicantId # userId /\ loan.merchantId # userId THEN "Forbidden"
  ELSE "ok"

\* LoanService.cancelLoan: after prisma.loan.findUnique
cancelLoanFind(loan, userId) ==
  IF loan = NoLoan THEN "NotFound"
  ELSE IF loan.applicantId # userId /\ loan.merchantId # userId THEN "Forbidden"
  ELSE IF loan.status \notin {"DRAFT", "SUBMITTED", "UNDER_REVIEW", "APPROVED"}
    THEN "InvalidState"
  ELSE "ok"

\* ------------------------------------------------------------------ loan lifecycle: transactions
NoDetails == [rate |-> NoRate, text |-> ""]

AuditRow(loanId, action, actorId, details) ==
  [entityType |-> "LOAN", entityId |-> loanId, action |-> action,
   actorId |-> actorId, details |-> details]

\* tx.loan.update of the five lifecycle transactions
assignBankerUpdate(row, bankerId) ==
  [row EXCEPT !.bankerId = bankerId, !.status = "UNDER_REVIEW"]

approveLoanUpdate(row, interestRate) ==
  [row EXCEPT !.status = "APPROVED", !.kycStatus = "VERIFIED", !.interestRate = interestRate]

rejectLoanUpdate(row) == [row EXCEPT !.status = "REJECTED"]

\* faulty variant of disburseLoanUpdate: the metadata is replaced by the record
disburseLoanUpdate_replaced(row, metadata, referenceId, notes) ==
  [row EXCEPT !.status = "DISBURSED",
              !.metadata = {<<"disbursement", <<referenceId, notes>>>>}]

\* metadata is the copy read by findUnique, with the disbursement record set on it
disburseLoanUpdate(row, metadata, referenceId, notes) ==
  [row EXCEPT !.status = "DISBURSED",
              !.metadata = {kv \in metadata : kv[1] # "disbursement"}
                             \cup {<<"disbursement", <<referenceId, notes>>>>}]

cancelLoanUpdate(row) == [row EXCEPT !.status = "CANCELLED"]

\* faulty variant of LoanTx: the loan is updated outside the transaction, so a
\* failing auditLog.create leaves the loan written without its audit row
LoanTx_loanOutside(loanId, newRow, auditRow, txOk) ==
  /\ loans' = [loans EXCEPT ![loanId] = newRow]
  /\ auditLog' = IF txOk THEN auditLog (+) SetToBag({auditRow}) ELSE auditLog

\* prisma.$transaction(loan.update + auditLog.create): both writes or, when a
\* statement of the transaction fails (txOk = FALSE), neither.
LoanTx(loanId, newRow, auditRow, txOk) ==
  IF txOk
  THEN /\ loans' = [loans EXCEPT ![loanId] = newRow]
       /\ auditLog' = auditLog (+) SetToBag({auditRow})
  ELSE UNCHANGED <<loans, auditLog>>

TxResult(txOk) == IF txOk THEN "ok" ELSE "TxFailed"


\* ------------------------------------------------------------------ KYC verification
KycStatusInputs == {"VERIFIED", "REJECTED", "PENDING"}
KycDocIdInputs == {"K1", "K3", "K9"}       \* K9: no such document

\* faulty variant of syncLoansKYCStatus: loans under review are left out
syncLoansKYCStatus_submittedOnly(table, docs, userId) ==
  IF userId \notin users THEN table
  ELSE LET readiness == isKYCCompleteIn(docs, userId, Role(userId), Null)
       IN [i \in DOMAIN table |->
             IF table[i].applicantId = userId /\ table[i].status = "SUBMITTED"
             THEN [table[i] EXCEPT
                     !.kycStatus = IF readiness.complete THEN "VERIFIED" ELSE "PENDING"]
             ELSE table[i]]

\* faulty variant of syncLoansKYCStatus: every loan of the user is rewritten
syncLoansKYCStatus_everyStatus(table, docs, userId) ==
  IF userId \notin users THEN table
  ELSE LET readiness == isKYCCompleteIn(docs, userId, Role(userId), Null)
       IN [i \in DOMAIN table |->
             IF table[i].applicantId = userId
             THEN [table[i] EXCEPT
                     !.kycStatus = IF readiness.complete THEN "VERIFIED" ELSE "PENDING"]
             ELSE table[i]]

\* KYCService.syncLoansKYCStatus: loan.updateMany over the user's open loans
syncLoansKYCStatus(table, docs, userId) ==
  IF userId \notin users THEN table
  ELSE LET readiness == isKYCCompleteIn(docs, userId, Role(userId), Null)
           newKycStatus == IF readiness.complete THEN "VERIFIED"
                           ELSE IF Len(readiness.missingTypes) > 0 THEN "PENDING"
                           ELSE "PENDING"
       IN [i \in DOMAIN table |->
             IF table[i].applicantId = userId
                /\ table[i].status \in {"SUBMITTED", "UNDER_REVIEW"}
             THEN [table[i] EXCEPT !.kycStatus = newKycStatus]
             ELSE table[i]]

\* faulty variant of verifyKYCDocumentUpdate: the reviewer is recorded whatever the verdict
verifyKYCDocumentUpdate_alwaysReviewer(doc, status, bankerId) ==
  [doc EXCEPT !.status = status, !.verifiedBy = bankerId]

\* kYCDocument.update of verifyKYCDocument
verifyKYCDocumentUpdate(doc, status, bankerId) ==
  [doc EXCEPT !.status = status,
              !.verifiedBy = IF status = "VERIFIED" THEN bankerId ELSE Null]

\* KYCService.createKYCAuditLog: the row written; a failed insert is caught and
\* logged inside the helper
createKYCAuditLog(kycDocId, action, actorId, ok) ==
  IF ok THEN <<[kycDocId |-> kycDocId, action |-> action, actorId |-> actorId]>> ELSE << >>

\* faulty variant of verifyKYCDocumentResult: a failed audit insert fails the call
verifyKYCDocumentResult_auditThrows(kycDocId, status, auditOk, noteOk) ==
  IF status \notin {"VERIFIED", "REJECTED"} THEN "Validation"
  ELSE IF kycDocId \notin DOMAIN kycDocs THEN "RecordNotFound"
  ELSE IF ~auditOk THEN "AuditFailed"
  ELSE IF ~noteOk THEN "NotificationFailed"
  ELSE "ok"

\* the outcome of verifyKYCDocument: the status check, the update of a row that
\* must exist, the audit helper (auditOk is not read: the helper never throws)
\* and the awaited notification.create, whose failure is rethrown
verifyKYCDocumentResult(kycDocId, status, auditOk, noteOk) ==
  IF status \notin {"VERIFIED", "REJECTED"} THEN "Validation"
  ELSE IF kycDocId \notin DOMAIN kycDocs THEN "RecordNotFound"
  ELSE IF ~noteOk THEN "NotificationFailed"
  ELSE "ok"

\* the rows verifyKYCDocument adds to KYCAuditLog and Notification
verifyKYCDocumentAppended(kycDocId, status, bankerId, auditOk, noteOk) ==
  IF status \in {"VERIFIED", "REJECTED"} /\ kycDocId \in DOMAIN kycDocs
  THEN [ kycAudit |-> createKYCAuditLog(kycDocId,
                                        IF status = "VERIFIED" THEN "KYC_VERIFIED"
                                        ELSE "KYC_REJECTED",
                                        bankerId, auditOk),
         notifications |-> IF noteOk
                           THEN <<[userId |-> kycDocs[kycDocId].userId, type |-> "KYC_UPDATE"]>>
                           ELSE << >>,
         attempts |-> 1 ]
  ELSE NoAppended

\* ------------------------------------------------------------------ notifications
\* whether each prisma.notification.create of one call succeeds
NoteOkInputs == [1..2 -> BOOLEAN]

\* NotificationService.createNotification: the row created; a failed insert is
\* logged and null is returned
createNotification(userId, type, ok) ==
  IF ok THEN <<[userId |-> userId, type |-> type]>> ELSE << >>

\* notifyLoanApproval / notifyLoanRejection / notifyLoanDisbursement: the
\* applicant, then the merchant if it is another user
notifyLoan(loan, type, noteOk) ==
  [ notifications |->
      createNotification(loan.applicantId, type, noteOk[1])
        \o (IF loan.merchantId # loan.applicantId
            THEN createNotification(loan.merchantId, type, noteOk[2])
            ELSE << >>),
    attempts |-> IF loan.merchantId # loan.applicantId THEN 2 ELSE 1,
    kycAudit |-> << >> ]

\* faulty variant of fireAndForget: the handler awaits the notifications and
\* fails when one of them was not created
fireAndForget_awaited(result, notified) ==
  IF result = "ok" /\ Len(notified.notifications) < notified.attempts
  THEN "NotificationFailed" ELSE result

\* this.notifyLoan...(loan).catch(log); return loan: the handler's outcome does
\* not wait for, or read, the notifications' outcome
fireAndForget(result, notified) == result

\* ------------------------------------------------------------------ responses
NoErrorDetails == [missingTypes |-> << >>, percentComplete |-> -1]

Reply(op, args, result, details) ==
  [op |-> op, args |-> args, result |-> result, details |-> details]

LoanArgs(loanId, userId) == [loanId |-> loanId, userId |-> userId]

\* ------------------------------------------------------------------ Spec: one action per handler
\* LoanService.assignBanker(loanId, bankerId, assignedBy)
AssignBanker ==
  /\ response = NoResponse
  /\ \E loanId \in LoanIdInputs, bankerId \in AssignTargets, assignedBy \in Admins,
     txOk \in BOOLEAN :
    LET loan == GetLoan(loanId)
        found == assignBankerFind(loan)
        looked == IF found = "ok" THEN assignBankerLookup(bankerId) ELSE found
        result == IF looked = "ok" THEN TxResult(txOk) ELSE looked
    IN /\ BagCardinality(auditLog) < MaxAudit
       /\ IF looked = "ok"
          THEN LoanTx(loanId, assignBankerUpdate(loans[loanId], bankerId),
                      AuditRow(loanId, "BANKER_ASSIGNED", assignedBy, NoDetails), txOk)
          ELSE UNCHANGED <<loans, auditLog>>
       /\ response' = Reply("assignBanker",
                            [loanId |-> loanId, userId |-> assignedBy, bankerId |-> bankerId],
                            result, NoErrorDetails)
       /\ UNCHANGED <<users, userStatus, auth, emails, customerMerchant, documents, kycDocs, req, appended>>

\* LoanService.approveLoan(loanId, bankerId, notes, interestRate)
ApproveLoan ==
  /\ response = NoResponse
  /\ \E loanId \in LoanIdInputs, bankerId \in Bankers, interestRate \in RateInputs,
     notes \in {"text"}, txOk \in BOOLEAN, noteOk \in NoteOkInputs :
    LET loan == GetLoan(loanId)
        found == approveLoanFind(loan, bankerId, interestRate)
        kyc == isKYCComplete(loan.applicantId, Role(loan.applicantId), loanTypeHint(loan))
        gated == IF found = "ok" THEN approveLoanKyc(kyc) ELSE found
        result == IF gated = "ok" THEN TxResult(txOk) ELSE gated
        notified == IF result = "ok" THEN notifyLoan(loan, "LOAN_APPROVED", noteOk)
                    ELSE NoAppended
    IN /\ IF gated = "ok"
          THEN LoanTx(loanId, approveLoanUpdate(loans[loanId], interestRate),
                      AuditRow(loanId, "LOAN_APPROVED", bankerId,
                               [rate |-> interestRate, text |-> notes]), txOk)
          ELSE UNCHANGED <<loans, auditLog>>
       /\ response' = Reply("approveLoan",
                            [loanId |-> loanId, userId |-> bankerId,
                             interestRate |-> interestRate],
                            fireAndForget(result, notified),
                            IF gated = "KYC_INCOMPLETE"
                            THEN [missingTypes |-> kyc.missingTypes,
                                  percentComplete |-> kyc.percentComplete]
                            ELSE NoErrorDetails)
       /\ appended' = notified
       /\ UNCHANGED <<users, userStatus, auth, emails, customerMerchant, documents, kycDocs, req>>

\* LoanService.rejectLoan(loanId, bankerId, notes)
RejectLoan ==
  /\ response = NoResponse
  /\ \E loanId \in LoanIdInputs, bankerId \in Bankers, notes \in TextInputs, txOk \in BOOLEAN,
     noteOk \in NoteOkInputs :
    LET found == rejectLoanFind(GetLoan(loanId), bankerId, notes)
        result == IF found = "ok" THEN TxResult(txOk) ELSE found
        notified == IF result = "ok" THEN notifyLoan(GetLoan(loanId), "LOAN_REJECTED", noteOk)
                    ELSE NoAppended
    IN /\ IF found = "ok"
          THEN LoanTx(loanId, rejectLoanUpdate(loans[loanId]),
                      AuditRow(loanId, "LOAN_REJECTED", bankerId, NoDetails), txOk)
          ELSE UNCHANGED <<loans, auditLog>>
       /\ response' = Reply("rejectLoan",
                            [loanId |-> loanId, userId |-> bankerId, text |-> notes],
                            fireAndForget(result, notified), NoErrorDetails)
       /\ appended' = notified
       /\ UNCHANGED <<users, userStatus, auth, emails, customerMerchant, documents, kycDocs, req>>

\* LoanService.disburseLoan(loanId, bankerId, referenceId, notes)
DisburseLoan ==
  /\ response = NoResponse
  /\ \E loanId \in LoanIdInputs, bankerId \in Bankers, referenceId \in TextInputs,
     notes \in {"text"}, txOk \in BOOLEAN, noteOk \in NoteOkInputs :
    LET loan == GetLoan(loanId)
        found == disburseLoanFind(loan, bankerId, referenceId)
        result == IF found = "ok" THEN TxResult(txOk) ELSE found
        notified == IF result = "ok" THEN notifyLoan(loan, "LOAN_DISBURSED", noteOk)
                    ELSE NoAppended
    IN /\ IF found = "ok"
          THEN LoanTx(loanId,
                      disburseLoanUpdate(loans[loanId], loan.metadata, referenceId, notes),
                      AuditRow(loanId, "LOAN_DISBURSED", bankerId,
                               [rate |-> NoRate, text |-> referenceId]), txOk)
          ELSE UNCHANGED <<loans, auditLog>>
       /\ response' = Reply("disburseLoan",
                            [loanId |-> loanId, userId |-> bankerId, text |-> referenceId,
                             notes |-> notes],
                            fireAndForget(result, notified), NoErrorDetails)
       /\ appended' = notified
       /\ UNCHANGED <<users, userStatus, auth, emails, customerMerchant, documents, kycDocs, req>>

\* LoanService.cancelLoan(loanId, userId, reason)
CancelLoan ==
  /\ response = NoResponse
  /\ \E loanId \in LoanIdInputs, userId \in CancelActors, reason \in {"text"},
     txOk \in BOOLEAN :
    LET found == cancelLoanFind(GetLoan(loanId), userId)
        result == IF found = "ok" THEN TxResult(txOk) ELSE found
    IN /\ IF found = "ok"
          THEN LoanTx(loanId, cancelLoanUpdate(loans[loanId]),
                      AuditRow(loanId, "LOAN_CANCELLED", userId,
                               [rate |-> NoRate, text |-> reason]), txOk)
          ELSE UNCHANGED <<loans, auditLog>>
       /\ response' = Reply("cancelLoan",
                            [loanId |-> loanId, userId |-> userId, text |-> reason],
                            result, NoErrorDetails)
       /\ UNCHANGED <<users, userStatus, auth, emails, customerMerchant, documents, kycDocs, req, appended>>

\* KYCService.verifyKYCDocument: the document update and, when the call gets
\* that far, the loan cache sync
VerifyKYCDocumentStore(kycDocId, status, bankerId, noteOk) ==
  LET docs == [kycDocs EXCEPT
                 ![kycDocId] = verifyKYCDocumentUpdate(kycDocs[kycDocId], status, bankerId)]
  IN IF status \in {"VERIFIED", "REJECTED"} /\ kycDocId \in DOMAIN kycDocs
     THEN /\ kycDocs' = docs
          /\ loans' = IF noteOk
                      THEN syncLoansKYCStatus(loans, docs, kycDocs[kycDocId].userId)
                      ELSE loans
     ELSE UNCHANGED <<kycDocs, loans>>

\* KYCService.verifyKYCDocument(kycDocId, status, bankerId, notes)
VerifyKYCDocument ==
  /\ response = NoResponse
  /\ \E kycDocId \in KycDocIdInputs, status \in KycStatusInputs, bankerId \in {"B1"},
     auditOk \in BOOLEAN, noteOk \in BOOLEAN :
    /\ VerifyKYCDocumentStore(kycDocId, status, bankerId, noteOk)
    /\ response' = Reply("verifyKYCDocument",
                         [kycDocId |-> kycDocId, userId |-> bankerId, status |-> status],
                         verifyKYCDocumentResult(kycDocId, status, auditOk, noteOk),
                         NoErrorDetails)
    /\ appended' = verifyKYCDocumentAppended(kycDocId, status, bankerId, auditOk, noteOk)
    /\ UNCHANGED <<users, userStatus, auth, emails, customerMerchant, documents, auditLog, req>>

\* ------------------------------------------------------------------ applyForLoan
\* Objects that exist in the backing object store (cloudinary.api.resource)
CloudStore == { <<"M1", "/", "a">>, <<"C1", "/", "b">>, <<"M2", "/", "c">>,
                <<"M1", "/", "e">> }

\* Objects whose lookup the store fails with an error other than 404
StoreFailures == { <<"M1", "/", "e">> }

\* cloudinary.api.resource(publicId): the object is found, or the call throws
\* with http_code 404, or it throws another error
cloudinaryResource(publicId) ==
  IF publicId \in StoreFailures THEN "error"
  ELSE IF publicId \in CloudStore THEN "found" ELSE "http404"

\* faulty variant of verifyResource: only a 404 counts as not verified
verifyResource_only404(publicId) ==
  IF publicId = << >> THEN FALSE ELSE cloudinaryResource(publicId) # "http404"

\* utils/cloudinary verifyResource(publicId)
verifyResource(publicId) ==
  IF publicId = << >> THEN FALSE
  ELSE CASE cloudinaryResource(publicId) = "found" -> TRUE
         [] cloudinaryResource(publicId) = "http404" -> FALSE
         [] OTHER -> FALSE

\* The documents a client may submit: own upload, beneficiary's upload, another
\* merchant's upload (exists, foreign namespace), a locator of no object, an own
\* upload whose lookup the store fails, no locator.
DocInputs ==
  { [publicId |-> <<"M1", "/", "a">>, type |-> "ID_PROOF"],
    [publicId |-> <<"C1", "/", "b">>, type |-> "PAN_CARD"],
    [publicId |-> <<"M2", "/", "c">>, type |-> "ID_PROOF"],
    [publicId |-> <<"M1", "/", "zz">>, type |-> "PAN_CARD"],
    [publicId |-> <<"M1", "/", "e">>, type |-> "ID_PROOF"],
    [publicId |-> << >>, type |-> "ID_PROOF"] }

RECURSIVE SeqsUpTo(_, _)
\* sequences over S of length 0..n
SeqsUpTo(S, n) ==
  IF n = 0 THEN {<< >>}
  ELSE LET shorter == SeqsUpTo(S, n - 1)
       IN shorter \cup {Append(q, x) : q \in {t \in shorter : Len(t) = n - 1}, x \in S}

\* String(email).trim().toLowerCase() on an address given as its letters and
\* whether it is written in upper case / padded with blanks
NormalizeEmail(email) == [email EXCEPT !.upper = FALSE, !.padded = FALSE]

Email(name) == [name |-> name, upper |-> FALSE, padded |-> FALSE]

ApplicantInputs ==
  { [type |-> "merchant", customerId |-> Null, complete |-> TRUE, email |-> Email("-")],
    [type |-> "existing", customerId |-> "C1", complete |-> TRUE, email |-> Email("-")],
    [type |-> "existing", customerId |-> "B1", complete |-> TRUE, email |-> Email("-")],
    [type |-> "existing", customerId |-> Null, complete |-> TRUE, email |-> Email("-")],
    [type |-> "new", customerId |-> Null, complete |-> TRUE, email |-> Email("n1")],
    [type |-> "new", customerId |-> Null, complete |-> TRUE,
     email |-> [name |-> "c1", upper |-> TRUE, padded |-> TRUE]],
    [type |-> "new", customerId |-> Null, complete |-> FALSE, email |-> Email("n1")],
    [type |-> "guest", customerId |-> Null, complete |-> TRUE, email |-> Email("-")] }

\* data.metadata: a JSON object, as a set of <<key, value>> pairs
ShopMetadata == {<<"purpose", <<"shop", "">>>>}

\* the request bodies of the application drill and of the lifecycle runs
\* (the metadata verdict is drawn only for a type that has a schema, and one
\* body names a loan type that does not exist: what follows the failed lookup
\* is never read)
FullApplications ==
  [ applicant : ApplicantInputs, loanTypeId : LoanTypeIds, metadata : {ShopMetadata},
    metadataValid : {TRUE}, documents : SeqsUpTo(DocInputs, MaxDocsPerApp) ]
  \cup [ applicant : ApplicantInputs, loanTypeId : {"LT2"}, metadata : {ShopMetadata},
         metadataValid : {FALSE}, documents : SeqsUpTo(DocInputs, MaxDocsPerApp) ]
  \cup [ applicant : {a \in ApplicantInputs : a.type = "merchant"}, loanTypeId : {"LT9"},
         metadata : {ShopMetadata}, metadataValid : {TRUE}, documents : {<< >>} ]

LifecycleApplications ==
  [ applicant : {a \in ApplicantInputs : a.customerId = "C1" \/ a.type = "merchant"},
    loanTypeId : {"LT1", "LT9"}, metadata : {ShopMetadata}, metadataValid : {TRUE},
    documents : {<< >>, <<CHOOSE d \in DocInputs : d.publicId = <<"M2", "/", "c">>>>} ]

\* faulty variant of missingDocs: only the first required tag is looked for
missingDocs_firstOnly(app) ==
  SeqFilterOut(SubSeq(LoanTypes[app.loanTypeId].requiredDocuments, 1, 1),
               {app.documents[i].type : i \in DOMAIN app.documents})

\* loanType.requiredDocuments.filter(reqDoc => !uploadedDocTypes.includes(reqDoc))
missingDocs(app) ==
  SeqFilterOut(LoanTypes[app.loanTypeId].requiredDocuments,
               {app.documents[i].type : i \in DOMAIN app.documents})

\* applyForLoan up to the applicant: loan type, metadata schema, required documents
applyValidate(app) ==
  IF app.loanTypeId \notin LoanTypeIds THEN "NotFound"
  ELSE IF LoanTypes[app.loanTypeId].hasSchema /\ ~app.metadataValid THEN "Validation"
  ELSE IF Len(missingDocs(app)) > 0 THEN "MissingDocuments"
  ELSE "ok"

\* applyForLoan's applicant branch: the error it throws, or "ok" / "create"
applyApplicant(applicant) ==
  CASE applicant.type = "merchant" -> "ok"
    [] applicant.type = "existing" ->
         IF applicant.customerId = Null THEN "Validation"
         ELSE IF applicant.customerId \notin users \/ Role(applicant.customerId) # "CUSTOMER"
           THEN "NotFound"
         ELSE "ok"
    [] applicant.type = "new" ->
         IF ~applicant.complete THEN "Validation"
         ELSE IF \E u \in users : emails[u] = NormalizeEmail(applicant.email)
           THEN "Conflict"
         ELSE "create"
    [] OTHER -> "Validation"

\* the per-document verdict of the verification promises
documentVerified(doc, merchantId, customerId) ==
  LET publicId == doc.publicId
      isMerchantDoc == StartsWith(publicId, <<merchantId>>)
      isCustomerDoc == customerId # Null /\ StartsWith(publicId, <<customerId>>)
  IN IF publicId = << >> THEN FALSE
     ELSE IF ~isMerchantDoc /\ ~isCustomerDoc THEN FALSE
     ELSE verifyResource(publicId)

\* faulty variant of invalidDocs: only the first document is verified
invalidDocs_firstOnly(docs, merchantId, customerId) ==
  {i \in DOMAIN docs : i = 1 /\ ~documentVerified(docs[i], merchantId, customerId)}

invalidDocs(docs, merchantId, customerId) ==
  {i \in DOMAIN docs : ~documentVerified(docs[i], merchantId, customerId)}

NewLoan(app, merchantId, customerId) ==
  [ loanTypeId |-> app.loanTypeId, merchantId |-> merchantId,
    applicantId |-> IF customerId # Null THEN customerId ELSE merchantId,
    status |-> "SUBMITTED", kycStatus |-> "PENDING", bankerId |-> Null,
    interestRate |-> NoRate, metadata |-> app.metadata ]

DocumentRow(loanId, doc, merchantId) ==
  [loanId |-> loanId, publicId |-> doc.publicId, type |-> doc.type, uploaderId |-> merchantId]

RECURSIVE DocumentRows(_, _, _)
DocumentRows(loanId, docs, merchantId) ==
  IF docs = << >> THEN EmptyBag
  ELSE SetToBag({DocumentRow(loanId, Head(docs), merchantId)})
         (+) DocumentRows(loanId, Tail(docs), merchantId)

\* applyForLoan up to the transaction: the applicant branch taken, the
\* beneficiary, and the verdict ("ok" or the error thrown)
applyOutcome(app, merchantId) ==
  LET validated == applyValidate(app)
      who == IF validated = "ok" THEN applyApplicant(app.applicant) ELSE validated
      customerId == CASE who = "create" -> "N1"
                      [] who = "ok" /\ app.applicant.type = "existing" ->
                           app.applicant.customerId
                      [] OTHER -> Null
      verified == IF who \in {"ok", "create"}
                  THEN IF invalidDocs(app.documents, merchantId, customerId) # {}
                       THEN "InvalidDocuments" ELSE "ok"
                  ELSE who
  IN [who |-> who, customerId |-> customerId, verdict |-> verified]

applyResult(app, merchantId, txOk) ==
  IF applyOutcome(app, merchantId).verdict = "ok" THEN TxResult(txOk)
  ELSE applyOutcome(app, merchantId).verdict

\* LoanService.applyForLoan: every write of the handler
ApplyForLoanStore(app, merchantId, txOk) ==
  LET out == applyOutcome(app, merchantId)
      loanId == Len(loans) + 1
  IN /\ Len(loans) < MaxLoans
     /\ out.who = "create" => "N1" \notin users
     /\ IF out.who = "create"
        THEN /\ users' = users \cup {"N1"}
             /\ emails' = [u \in users \cup {"N1"} |->
                             IF u = "N1" THEN NormalizeEmail(app.applicant.email)
                             ELSE emails[u]]
             /\ customerMerchant' =
                  [c \in DOMAIN customerMerchant \cup {"N1"} |->
                     IF c = "N1" THEN merchantId ELSE customerMerchant[c]]
        ELSE UNCHANGED <<users, emails, customerMerchant>>
     /\ UNCHANGED <<userStatus, auth>>
     /\ IF applyResult(app, merchantId, txOk) = "ok"
        THEN /\ loans' = Append(loans, NewLoan(app, merchantId, out.customerId))
             /\ documents' = documents (+) DocumentRows(loanId, app.documents, merchantId)
             /\ auditLog' = auditLog
                  (+) SetToBag({AuditRow(loanId, "LOAN_APPLIED", merchantId, NoDetails)})
        ELSE UNCHANGED <<loans, documents, auditLog>>

\* LoanService.applyForLoan(data, merchantId)
ApplyForLoanBy(apps, merchants) ==
  /\ response = NoResponse
  /\ \E app \in apps, merchantId \in merchants :
       \* the transaction's fate is drawn only when the handler reaches it
       \E txOk \in IF applyOutcome(app, merchantId).verdict = "ok" THEN BOOLEAN ELSE {TRUE} :
         /\ ApplyForLoanStore(app, merchantId, txOk)
         /\ response' = Reply("applyForLoan",
                              [loanId |-> Len(loans) + 1, userId |-> merchantId, app |-> app],
                              applyResult(app, merchantId, txOk),
                              IF applyResult(app, merchantId, txOk) = "MissingDocuments"
                              THEN [missingTypes |-> missingDocs(app), percentComplete |-> -1]
                              ELSE NoErrorDetails)
         /\ UNCHANGED <<kycDocs, req, appended>>

ApplyForLoan(apps) == ApplyForLoanBy(apps, {"M1"})

\* ------------------------------------------------------------------ initial store
Procs == 1..NumProcs

\* C1 has gone through upload and review for two of its three document types
SeedKycDocs ==
  [ K1 |-> [userId |-> "C1", type |-> "ID_PROOF", status |-> "VERIFIED",
            url |-> <<"res", "/", "C1", "/", "ID_PROOF", "/", "K1">>, verifiedBy |-> "B1"],
    K2 |-> [userId |-> "C1", type |-> "ADDRESS_PROOF", status |-> "VERIFIED",
            url |-> <<"res", "/", "C1", "/", "ADDRESS_PROOF", "/", "K2">>,
            verifiedBy |-> "B1"],
    K3 |-> [userId |-> "C1", type |-> "PAN_CARD", status |-> "PENDING",
            url |-> <<"res", "/", "C1", "/", "PAN_CARD", "/", "K3">>, verifiedBy |-> Null] ]

InitUsers ==
  /\ users = UserIds \ {"N1"}
  /\ emails = [u \in UserIds \ {"N1"} |->
                 Email(CASE u = "M1" -> "m1" [] u = "M2" -> "m2" [] u = "C1" -> "c1"
                         [] u = "B1" -> "b1" [] u = "B2" -> "b2" [] OTHER -> "a1")]
  /\ customerMerchant = [c \in {"C1"} |-> "M1"]
  /\ userStatus = [u \in UserIds \ {"N1"} |-> "ACTIVE"]
  /\ auth = NoAuth

Init ==
  /\ InitUsers
  /\ loans = << >>
  /\ documents = EmptyBag
  /\ auditLog = EmptyBag
  /\ kycDocs = SeedKycDocs
  /\ req = [p \in Procs |-> Idle]
  /\ response = NoResponse
  /\ appended = NoAppended

\* The outcome has been returned to the caller; the next call is served.
Respond ==
  /\ response # NoResponse
  /\ response' = NoResponse
  /\ appended' = NoAppended
  /\ UNCHANGED <<users, userStatus, auth, emails, customerMerchant, loans, documents, auditLog, kycDocs, req>>

Next ==
  \/ ApplyForLoan(LifecycleApplications)
  \/ AssignBanker
  \/ ApproveLoan
  \/ RejectLoan
  \/ DisburseLoan
  \/ CancelLoan
  \/ VerifyKYCDocument
  \/ Respond

Spec == Init /\ [][Next]_vars

\* ------------------------------------------------------------------ SpecConc: one action per awaited step
\* A call in flight: the handler, its arguments, and the loan row its
\* findUnique returned (the later steps of the handler use that copy).
InFlight(pc, op, loanId, userId, arg, loan) ==
  [pc |-> pc, op |-> op, loanId |-> loanId, userId |-> userId, arg |-> arg, loan |-> loan]

Proceed(p, found, next) ==
  req' = [req EXCEPT ![p] = IF found = "ok" THEN next ELSE Idle]

AssignBankerFind(p) ==
  \E loanId \in LoanIdInputs, bankerId \in AssignTargets, assignedBy \in Admins :
    /\ req[p] = Idle
    /\ BagCardinality(auditLog) < MaxAudit
    /\ Proceed(p, assignBankerFind(GetLoan(loanId)),
               InFlight("lookup", "assignBanker", loanId, assignedBy, bankerId,
                        GetLoan(loanId)))
    /\ UNCHANGED <<users, userStatus, auth, emails, customerMerchant, loans, documents, auditLog, kycDocs,
                   response, appended>>

AssignBankerLookup(p) ==
  /\ req[p].pc = "lookup"
  /\ Proceed(p, assignBankerLookup(req[p].arg), [req[p] EXCEPT !.pc = "tx"])
  /\ UNCHANGED <<users, userStatus, auth, emails, customerMerchant, loans, documents, auditLog, kycDocs,
                 response, appended>>

AssignBankerTx(p) ==
  \E txOk \in BOOLEAN :
    /\ req[p].pc = "tx" /\ req[p].op = "assignBanker"
    /\ LoanTx(req[p].loanId, assignBankerUpdate(loans[req[p].loanId], req[p].arg),
              AuditRow(req[p].loanId, "BANKER_ASSIGNED", req[p].userId, NoDetails), txOk)
    /\ req' = [req EXCEPT ![p] = Idle]
    /\ UNCHANGED <<users, userStatus, auth, emails, customerMerchant, documents, kycDocs, response, appended>>

ApproveLoanFind(p) ==
  \E loanId \in LoanIdInputs, bankerId \in Bankers, interestRate \in RateInputs :
    /\ req[p] = Idle
    /\ Proceed(p, approveLoanFind(GetLoan(loanId), bankerId, interestRate),
               InFlight("kyc", "approveLoan", loanId, bankerId, interestRate,
                        GetLoan(loanId)))
    /\ UNCHANGED <<users, userStatus, auth, emails, customerMerchant, loans, documents, auditLog, kycDocs,
                   response, appended>>

ApproveLoanKyc(p) ==
  /\ req[p].pc = "kyc"
  /\ Proceed(p, approveLoanKyc(isKYCComplete(req[p].loan.applicantId,
                                             Role(req[p].loan.applicantId),
                                             loanTypeHint(req[p].loan))),
             [req[p] EXCEPT !.pc = "tx"])
  /\ UNCHANGED <<users, userStatus, auth, emails, customerMerchant, loans, documents, auditLog, kycDocs,
                 response, appended>>

ApproveLoanTx(p) ==
  \E txOk \in BOOLEAN :
    /\ req[p].pc = "tx" /\ req[p].op = "approveLoan"
    /\ LoanTx(req[p].loanId, approveLoanUpdate(loans[req[p].loanId], req[p].arg),
              AuditRow(req[p].loanId, "LOAN_APPROVED", req[p].userId,
                       [rate |-> req[p].arg, text |-> "text"]), txOk)
    /\ req' = [req EXCEPT ![p] = Idle]
    /\ UNCHANGED <<users, userStatus, auth, emails, customerMerchant, documents, kycDocs, response, appended>>

RejectLoanFind(p) ==
  \E loanId \in LoanIdInputs, bankerId \in Bankers, notes \in TextInputs :
    /\ req[p] = Idle
    /\ Proceed(p, rejectLoanFind(GetLoan(loanId), bankerId, notes),
               InFlight("tx", "rejectLoan", loanId, bankerId, notes, GetLoan(loanId)))
    /\ UNCHANGED <<users, userStatus, auth, emails, customerMerchant, loans, documents, auditLog, kycDocs,
                   response, appended>>

RejectLoanTx(p) ==
  \E txOk \in BOOLEAN :
    /\ req[p].pc = "tx" /\ req[p].op = "rejectLoan"
    /\ LoanTx(req[p].loanId, rejectLoanUpdate(loans[req[p].loanId]),
              AuditRow(req[p].loanId, "LOAN_REJECTED", req[p].userId, NoDetails), txOk)
    /\ req' = [req EXCEPT ![p] = Idle]
    /\ UNCHANGED <<users, userStatus, auth, emails, customerMerchant, documents, kycDocs, response, appended>>

DisburseLoanFind(p) ==
  \E loanId \in LoanIdInputs, bankerId \in Bankers, referenceId \in TextInputs :
    /\ req[p] = Idle
    /\ Proceed(p, disburseLoanFind(GetLoan(loanId), bankerId, referenceId),
               InFlight("tx", "disburseLoan", loanId, bankerId, referenceId,
                        GetLoan(loanId)))
    /\ UNCHANGED <<users, userStatus, auth, emails, customerMerchant, loans, documents, auditLog, kycDocs,
                   response, appended>>

DisburseLoanTx(p) ==
  \E txOk \in BOOLEAN :
    /\ req[p].pc = "tx" /\ req[p].op = "disburseLoan"
    /\ LoanTx(req[p].loanId,
              disburseLoanUpdate(loans[req[p].loanId], req[p].loan.metadata,
                                 req[p].arg, "text"),
              AuditRow(req[p].loanId, "LOAN_DISBURSED", req[p].userId,
                       [rate |-> NoRate, text |-> req[p].arg]), txOk)
    /\ req' = [req EXCEPT ![p] = Idle]
    /\ UNCHANGED <<users, userStatus, auth, emails, customerMerchant, documents, kycDocs, response, appended>>

CancelLoanFind(p) ==
  \E loanId \in LoanIdInputs, userId \in CancelActors, reason \in {"text"} :
    /\ req[p] = Idle
    /\ Proceed(p, cancelLoanFind(GetLoan(loanId), userId),
               InFlight("tx", "cancelLoan", loanId, userId, reason, GetLoan(loanId)))
    /\ UNCHANGED <<users, userStatus, auth, emails, customerMerchant, loans, documents, auditLog, kycDocs,
                   response, appended>>

CancelLoanTx(p) ==
  \E txOk \in BOOLEAN :
    /\ req[p].pc = "tx" /\ req[p].op = "cancelLoan"
    /\ LoanTx(req[p].loanId, cancelLoanUpdate(loans[req[p].loanId]),
              AuditRow(req[p].loanId, "LOAN_CANCELLED", req[p].userId,
                       [rate |-> NoRate, text |-> req[p].arg]), txOk)
    /\ req' = [req EXCEPT ![p] = Idle]
    /\ UNCHANGED <<users, userStatus, auth, emails, customerMerchant, documents, kycDocs, response, appended>>

\* applyForLoan and verifyKYCDocument, served between the steps of other calls
ApplyForLoanServed ==
  \E app \in LifecycleApplications, merchantId \in {"M1"}, txOk \in BOOLEAN :
    /\ ApplyForLoanStore(app, merchantId, txOk)
    /\ UNCHANGED <<kycDocs, req, response, appended>>

VerifyKYCDocumentServed ==
  \E kycDocId \in KycDocIdInputs, status \in KycStatusInputs, bankerId \in {"B1"},
     noteOk \in BOOLEAN :
    /\ VerifyKYCDocumentStore(kycDocId, status, bankerId, noteOk)
    /\ UNCHANGED <<users, userStatus, auth, emails, customerMerchant, documents, auditLog, req, response, appended>>

NextConc ==
  \/ ApplyForLoanServed
  \/ VerifyKYCDocumentServed
  \/ \E p \in Procs :
       \/ AssignBankerFind(p) \/ AssignBankerLookup(p) \/ AssignBankerTx(p)
       \/ ApproveLoanFind(p) \/ ApproveLoanKyc(p) \/ ApproveLoanTx(p)
       \/ RejectLoanFind(p) \/ RejectLoanTx(p)
       \/ DisburseLoanFind(p) \/ DisburseLoanTx(p)
       \/ CancelLoanFind(p) \/ CancelLoanTx(p)

SpecConc == Init /\ [][NextConc]_vars

\* ------------------------------------------------------------------ KYC upload
\* ids the store gives to new KYCDocument rows, and the `${uuidv4()}-${Date.now()}`
\* suffixes generateUploadUrl draws for them
KycIdPool == <<"K1", "K2", "K3", "K4", "K5", "K6">>
UploadTokenPool == <<"U1", "U2", "U3", "U4", "U5", "U6">>

\* https://res.cloudinary.com/<cloud>/image/upload/<folder>/<publicId>
UrlOf(publicId) == <<"res", "/">> \o publicId

UploadOwners == {"C1", "M1"}
UploadTypeInputs == {"ID_PROOF", "PAN_CARD", "SELFIE"}
FileSizeInputs == {1024, KycMaxFileSize, KycMaxFileSize + 1}
ContentTypeInputs == {"image/jpeg", "application/pdf", "text/html"}
ClientLocators ==
  { <<u, "/", t, "/", x>> : u \in UploadOwners, t \in {"ID_PROOF", "PAN_CARD"},
                            x \in {"K1", "K2", "U1"} }
    \cup { << >>, <<"..", "/", "C1", "/", "ID_PROOF", "/", "K1">> }

generateUploadUrlResult(docType) ==
  IF docType \notin {"ID_PROOF", "ADDRESS_PROOF", "PAN_CARD", "BANK_STATEMENT"}
  THEN "Validation" ELSE "ok"

\* KYCService.createKYCDocument(userId, type, status, publicId)
createKYCDocument(userId, type, status, publicId) ==
  [userId |-> userId, type |-> type, status |-> status,
   url |-> IF publicId # << >> THEN UrlOf(publicId) ELSE << >>, verifiedBy |-> Null]

\* KYCService.generateUploadUrl(userId, docType)
GenerateUploadUrl ==
  /\ response = NoResponse
  /\ \E userId \in UploadOwners, docType \in UploadTypeInputs :
    LET n == Cardinality(DOMAIN kycDocs) + 1
        structuredPublicId == <<userId, "/", docType, "/", UploadTokenPool[n]>>
        result == generateUploadUrlResult(docType)
    IN /\ n <= MaxKycDocs
       /\ IF result = "ok"
          THEN kycDocs' = [k \in DOMAIN kycDocs \cup {KycIdPool[n]} |->
                             IF k = KycIdPool[n]
                             THEN createKYCDocument(userId, docType, "UPLOADING",
                                                    structuredPublicId)
                             ELSE kycDocs[k]]
          ELSE UNCHANGED kycDocs
       /\ response' = Reply("generateUploadUrl",
                            [userId |-> userId, docType |-> docType,
                             kycDocId |-> KycIdPool[n], publicId |-> structuredPublicId],
                            result, NoErrorDetails)
       /\ UNCHANGED <<users, userStatus, auth, emails, customerMerchant, loans, documents, auditLog, req, appended>>

\* faulty variant of completeUploadPublicId: the client's locator is kept
completeUploadPublicId_client(existingDoc, kycDocId, publicId) == publicId

\* completeUpload: the locator kept after the publicId structure check
completeUploadPublicId(existingDoc, kycDocId, publicId) ==
  LET expectedPublicId == <<existingDoc.userId, "/", existingDoc.type, "/", kycDocId>>
  IN IF publicId # expectedPublicId THEN expectedPublicId ELSE publicId

completeUploadResult(kycDocId, fileSize, contentType) ==
  IF kycDocId \notin DOMAIN kycDocs THEN "NotFound"
  ELSE IF fileSize > KycMaxFileSize THEN "TooLarge"
  ELSE IF contentType \notin {"image/jpeg", "image/png", "application/pdf"}
    THEN "UnsupportedType"
  ELSE "ok"

\* KYCService.completeUpload(kycDocId, publicId, fileSize, contentType)
CompleteUploadOf(kycDocIds, locators, fileSizes, contentTypes) ==
  /\ response = NoResponse
  /\ \E kycDocId \in kycDocIds, publicId \in locators,
     fileSize \in fileSizes, contentType \in contentTypes, auditOk \in BOOLEAN :
    LET result == completeUploadResult(kycDocId, fileSize, contentType)
    IN /\ IF result = "ok"
          THEN kycDocs' =
                 [kycDocs EXCEPT
                    ![kycDocId] =
                      [@ EXCEPT !.url = UrlOf(completeUploadPublicId(kycDocs[kycDocId],
                                                                     kycDocId, publicId)),
                                !.status = "PENDING",
                                !.verifiedBy = Null]]
          ELSE UNCHANGED kycDocs
       /\ response' = Reply("completeUpload",
                            [kycDocId |-> kycDocId, publicId |-> publicId,
                             fileSize |-> fileSize, contentType |-> contentType],
                            result, NoErrorDetails)
       /\ appended' = IF result = "ok"
                      THEN [NoAppended EXCEPT
                              !.kycAudit = createKYCAuditLog(kycDocId, "DOCUMENT_UPLOADED",
                                                             Null, auditOk)]
                      ELSE NoAppended
       /\ UNCHANGED <<users, userStatus, auth, emails, customerMerchant, loans, documents, auditLog, req>>

CompleteUpload ==
  CompleteUploadOf({"K1", "K2", "K9"}, ClientLocators, FileSizeInputs, ContentTypeInputs)

\* ------------------------------------------------------------------ further specifications
\* The store as the upload flow finds it: no KYC document yet.
InitUpload ==
  /\ InitUsers
  /\ loans = << >>
  /\ documents = EmptyBag
  /\ auditLog = EmptyBag
  /\ kycDocs = << >>
  /\ req = [p \in Procs |-> Idle]
  /\ response = NoResponse
  /\ appended = NoAppended

NextUpload ==
  \/ GenerateUploadUrl
  \/ CompleteUpload
  \/ VerifyKYCDocument
  \/ Respond

SpecUpload == InitUpload /\ [][NextUpload]_vars

\* Applications with every shape of request body.
NextApply ==
  \/ ApplyForLoan(FullApplications)
  \/ Respond

SpecApply == Init /\ [][NextApply]_vars

\* LoanService never writes status DRAFT, but cancelLoan accepts it: the Loan
\* table may hold a row in that status (the column's enum has the value).
DraftLoan ==
  [ loanTypeId |-> "LT1", merchantId |-> "M1", applicantId |-> "C1",
    status |-> "DRAFT", kycStatus |-> "PENDING", bankerId |-> Null,
    interestRate |-> NoRate, metadata |-> {<<"purpose", <<"shop", "">>>>} ]

InitStored ==
  /\ InitUsers
  /\ loans \in {<< >>, <<DraftLoan>>}
  /\ documents = EmptyBag
  /\ auditLog = EmptyBag
  /\ kycDocs = SeedKycDocs
  /\ req = [p \in Procs |-> Idle]
  /\ response = NoResponse
  /\ appended = NoAppended

SpecStored == InitStored /\ [][Next]_vars

\* ------------------------------------------------------------------ KYC upload on behalf
OnBehalfActors == {"M1", "M2", "B1", "A1", "C1"}
OnBehalfTargets == {"C1", "M1", "B1"}

\* prisma.merchantProfile.findUnique({ where: { userId: actorUserId } }): the id
\* of the actor's merchant profile, Null when the actor has none
merchantProfileOf(actorUserId) ==
  IF actorUserId \in users /\ Role(actorUserId) = "MERCHANT" THEN actorUserId ELSE Null

\* target.customerProfile?.merchantId
customerProfileMerchantId(targetUserId) ==
  IF targetUserId \in DOMAIN customerMerchant THEN customerMerchant[targetUserId] ELSE "undefined"

\* faulty variant of generateUploadUrlOnBehalfCheck: a merchant may act for any customer
generateUploadUrlOnBehalfCheck_anyCustomer(actorUserId, actorRole, targetUserId) ==
  IF actorRole = "MERCHANT"
  THEN IF targetUserId \notin users \/ Role(targetUserId) # "CUSTOMER" THEN "NotFound"
       ELSE "ok"
  ELSE IF actorRole # "BANKER" /\ actorRole # "ADMIN" THEN "Forbidden"
  ELSE "ok"

\* generateUploadUrlOnBehalf: the permission checks
generateUploadUrlOnBehalfCheck(actorUserId, actorRole, targetUserId) ==
  IF actorRole = "MERCHANT"
  THEN IF targetUserId \notin users \/ Role(targetUserId) # "CUSTOMER" THEN "NotFound"
       ELSE IF \/ merchantProfileOf(actorUserId) = Null
               \/ customerProfileMerchantId(targetUserId) # merchantProfileOf(actorUserId)
         THEN "Forbidden"
       ELSE "ok"
  ELSE IF actorRole # "BANKER" /\ actorRole # "ADMIN" THEN "Forbidden"
  ELSE "ok"

\* completeUploadOnBehalf: the document lookup and the permission checks
completeUploadOnBehalfCheck(actorUserId, actorRole, kycDocId) ==
  IF kycDocId \notin DOMAIN kycDocs THEN "NotFound"
  ELSE IF actorRole = "MERCHANT"
    THEN IF \/ merchantProfileOf(actorUserId) = Null
            \/ customerProfileMerchantId(kycDocs[kycDocId].userId)
                 # merchantProfileOf(actorUserId)
         THEN "Forbidden"
         ELSE "ok"
  ELSE IF actorRole # "BANKER" /\ actorRole # "ADMIN" THEN "Forbidden"
  ELSE "ok"

\* KYCService.generateUploadUrlOnBehalf(actorUserId, actorRole, targetUserId, docType)
GenerateUploadUrlOnBehalf ==
  /\ response = NoResponse
  /\ Cardinality(DOMAIN kycDocs) + 1 <= MaxKycDocs
  /\ \E actorUserId \in OnBehalfActors, targetUserId \in OnBehalfTargets,
        docType \in UploadTypeInputs :
       LET n == Cardinality(DOMAIN kycDocs) + 1
           structuredPublicId == <<targetUserId, "/", docType, "/", UploadTokenPool[n]>>
           check == generateUploadUrlOnBehalfCheck(actorUserId, Role(actorUserId),
                                                   targetUserId)
           result == IF check # "ok" THEN check ELSE generateUploadUrlResult(docType)
       IN /\ IF result = "ok"
             THEN kycDocs' = [k \in DOMAIN kycDocs \cup {KycIdPool[n]} |->
                                IF k = KycIdPool[n]
                                THEN createKYCDocument(targetUserId, docType, "UPLOADING",
                                                       structuredPublicId)
                                ELSE kycDocs[k]]
             ELSE UNCHANGED kycDocs
          /\ response' = Reply("generateUploadUrlOnBehalf",
                               [actorUserId |-> actorUserId, targetUserId |-> targetUserId,
                                docType |-> docType, kycDocId |-> KycIdPool[n]],
                               result, NoErrorDetails)
          /\ UNCHANGED <<users, userStatus, auth, emails, customerMerchant, loans, documents, auditLog, req,
                         appended>>

\* KYCService.completeUploadOnBehalf(actorUserId, actorRole, kycDocId, publicId,
\*                                   fileSize, contentType)
CompleteUploadOnBehalf ==
  /\ response = NoResponse
  /\ \E actorUserId \in OnBehalfActors, kycDocId \in {"K1", "K2", "K9"},
        publicId \in {<<"C1", "/", "ID_PROOF", "/", "K1">>, << >>},
        fileSize \in {1024, KycMaxFileSize + 1}, auditOk \in BOOLEAN :
       LET check == completeUploadOnBehalfCheck(actorUserId, Role(actorUserId), kycDocId)
           result == IF check # "ok" THEN check
                     ELSE completeUploadResult(kycDocId, fileSize, "image/jpeg")
       IN /\ IF result = "ok"
             THEN kycDocs' =
                    [kycDocs EXCEPT
                       ![kycDocId] =
                         [@ EXCEPT !.url = UrlOf(completeUploadPublicId(kycDocs[kycDocId],
                                                                        kycDocId, publicId)),
                                   !.status = "PENDING",
                                   !.verifiedBy = Null]]
             ELSE UNCHANGED kycDocs
          /\ response' = Reply("completeUploadOnBehalf",
                               [actorUserId |-> actorUserId, kycDocId |-> kycDocId,
                                publicId |-> publicId, fileSize |-> fileSize],
                               result, NoErrorDetails)
          /\ appended' = IF result = "ok"
                         THEN [NoAppended EXCEPT
                                 !.kycAudit = createKYCAuditLog(kycDocId, "DOCUMENT_UPLOADED",
                                                                Null, auditOk)]
                         ELSE NoAppended
          /\ UNCHANGED <<users, userStatus, auth, emails, customerMerchant, loans, documents, auditLog, req>>

NextOnBehalf ==
  \/ GenerateUploadUrlOnBehalf
  \/ CompleteUploadOnBehalf
  \/ VerifyKYCDocument
  \/ Respond

SpecOnBehalf == InitUpload /\ [][NextOnBehalf]_vars

\* ------------------------------------------------------------------ admin user management
UserStatuses == {"ACTIVE", "SUSPENDED", "PENDING", "REJECTED"}
UserStatusInputs == UserStatuses \cup {"DELETED"}
StatusTargets == {"A1", "B1", "C1", "N1"}

\* AdminUserController.updateUserStatus: the status value check, then the
\* service's prisma.user.update (which fails when the row does not exist)
updateUserStatusResult(id, status) ==
  IF status \notin {"ACTIVE", "SUSPENDED", "PENDING", "REJECTED"} THEN "Validation"
  ELSE IF id \notin DOMAIN userStatus THEN "RecordNotFound"
  ELSE "ok"

\* PUT /admin/users/:id/status, behind authenticate and authorize(['ADMIN'])
UpdateUserStatusOf(targets) ==
  /\ response = NoResponse
  /\ \E adminId \in Admins \cap users, id \in targets, status \in UserStatusInputs :
       LET result == updateUserStatusResult(id, status)
       IN /\ userStatus' = IF result = "ok" THEN [userStatus EXCEPT ![id] = status]
                           ELSE userStatus
          /\ response' = Reply("updateUserStatus",
                               [adminId |-> adminId, id |-> id, status |-> status],
                               result, NoErrorDetails)
          /\ UNCHANGED <<users, auth, emails, customerMerchant, loans, documents, auditLog,
                         kycDocs, req, appended>>

UpdateUserStatus == UpdateUserStatusOf(StatusTargets)

NextAdmin ==
  \/ UpdateUserStatus
  \/ Respond

SpecAdmin == Init /\ [][NextAdmin]_vars

\* ------------------------------------------------------------------ login
\* faulty variant of validatePassword: the lock is set one failure late
validatePassword_lateLock(userId, passwordOk) ==
  IF auth.lockout[userId] = "inForce"
  THEN [verdict |-> "Locked", failedLoginAttempts |-> auth.failedLoginAttempts[userId],
        lockout |-> auth.lockout[userId]]
  ELSE IF passwordOk
    THEN [verdict |-> "user", failedLoginAttempts |-> 0, lockout |-> "none"]
  ELSE [verdict |-> "null", failedLoginAttempts |-> auth.failedLoginAttempts[userId] + 1,
        lockout |-> IF auth.failedLoginAttempts[userId] + 1 > LOCK_THRESHOLD
                    THEN "inForce" ELSE "none"]

\* UserService.validatePassword: the outcome (423 thrown, the user, or null)
\* and the failedLoginAttempts and lockoutUntil it leaves on the row
validatePassword(userId, passwordOk) ==
  IF auth.lockout[userId] = "inForce"
  THEN [verdict |-> "Locked", failedLoginAttempts |-> auth.failedLoginAttempts[userId],
        lockout |-> auth.lockout[userId]]
  ELSE IF passwordOk
    THEN [verdict |-> "user", failedLoginAttempts |-> 0, lockout |-> "none"]
  ELSE [verdict |-> "null", failedLoginAttempts |-> auth.failedLoginAttempts[userId] + 1,
        lockout |-> IF auth.failedLoginAttempts[userId] + 1 >= LOCK_THRESHOLD
                    THEN "inForce" ELSE "none"]

\* AuthController.login after validatePassword returned the user
loginResult(userId, knownDevice, noteOk) ==
  IF userStatus[userId] \in {"SUSPENDED", "REJECTED", "DELETED"} THEN "Forbidden"
  ELSE IF userId \in TwoFactorUsers THEN "require2fa"
  ELSE IF ~knownDevice /\ ~noteOk THEN "NotificationFailed"
  ELSE "ok"

\* POST /auth/login
Login ==
  /\ response = NoResponse
  /\ \E userId \in AuthUsers, passwordOk \in BOOLEAN, noteOk \in BOOLEAN :
     \E knownDevice \in IF userId \in auth.refreshTokens THEN BOOLEAN ELSE {FALSE} :
       LET checked == validatePassword(userId, passwordOk)
           result == CASE checked.verdict = "Locked" -> "Locked"
                       [] checked.verdict = "null" -> "InvalidCredentials"
                       [] OTHER -> loginResult(userId, knownDevice, noteOk)
       IN /\ passwordOk \/ auth.failedLoginAttempts[userId] < MaxFailedAttempts
          /\ auth' = [auth EXCEPT
                        !.failedLoginAttempts[userId] = checked.failedLoginAttempts,
                        !.lockout[userId] = checked.lockout,
                        !.refreshTokens = IF result = "ok" THEN @ \cup {userId} ELSE @,
                        !.tempTokens = IF result = "require2fa" THEN @ \cup {userId} ELSE @]
          /\ response' = Reply("login", [userId |-> userId, passwordOk |-> passwordOk],
                               result, NoErrorDetails)
          /\ appended' =
               IF checked.verdict = "user" /\ result \in {"ok", "NotificationFailed"}
                  /\ ~knownDevice
               THEN [ notifications |-> createNotification(userId, "NEW_DEVICE_LOGIN", noteOk),
                      attempts |-> 1, kycAudit |-> << >> ]
               ELSE NoAppended
          /\ UNCHANGED <<users, userStatus, emails, customerMerchant, loans, documents,
                         auditLog, kycDocs, req>>

\* POST /auth/2fa/login: the temp token is a signed token the server keeps no
\* record of; it stays valid until it expires
Login2fa ==
  /\ response = NoResponse
  /\ \E userId \in AuthUsers, codeOk \in BOOLEAN :
       LET result == IF userId \notin auth.tempTokens THEN "InvalidSession"
                     ELSE IF userId \notin TwoFactorUsers THEN "InvalidUserState"
                     ELSE IF ~codeOk THEN "Invalid2fa"
                     ELSE "ok"
       IN /\ auth' = [auth EXCEPT
                        !.refreshTokens = IF result = "ok" THEN @ \cup {userId} ELSE @]
          /\ response' = Reply("login2fa", [userId |-> userId, codeOk |-> codeOk],
                               result, NoErrorDetails)
          /\ UNCHANGED <<users, userStatus, emails, customerMerchant, loans, documents,
                         auditLog, kycDocs, req, appended>>

\* POST /auth/refresh-token: the stored token is revoked and a new one stored
RefreshToken ==
  /\ response = NoResponse
  /\ \E userId \in AuthUsers :
       /\ response' = Reply("refreshToken", [userId |-> userId],
                            IF userId \in auth.refreshTokens THEN "ok" ELSE "InvalidToken",
                            NoErrorDetails)
       /\ UNCHANGED <<users, userStatus, auth, emails, customerMerchant, loans, documents,
                      auditLog, kycDocs, req, appended>>

\* the clock passes a lockoutUntil
LockoutElapses ==
  /\ response = NoResponse
  /\ \E userId \in AuthUsers :
       /\ auth.lockout[userId] = "inForce"
       /\ auth' = [auth EXCEPT !.lockout[userId] = "elapsed"]
  /\ UNCHANGED <<users, userStatus, emails, customerMerchant, loans, documents, auditLog,
                 kycDocs, req, response, appended>>

NextAuth ==
  \/ Login
  \/ Login2fa
  \/ RefreshToken
  \/ LockoutElapses
  \/ UpdateUserStatusOf(AuthUsers)
  \/ Respond

SpecAuth == Init /\ [][NextAuth]_vars

\* ------------------------------------------------------------------ token rotation
\* The RefreshToken table row by row, a token being the index of its row, and
\* one action per awaited step of the exchange. The rows are within their seven
\* days of validity.
RefreshTokenRow(userId) == [userId |-> userId, revoked |-> FALSE]

\* UserService.validateRefreshToken(token): the row, or null
validateRefreshToken(token) ==
  IF token \notin DOMAIN auth.refreshTokenRows THEN "InvalidToken"
  ELSE IF auth.refreshTokenRows[token].revoked THEN "InvalidToken"
  ELSE "ok"

\* UserService.revokeRefreshToken(token)
revokeRefreshToken(rows, token) == [rows EXCEPT ![token].revoked = TRUE]

\* UserService.revokeAllRefreshTokens(userId)
revokeAllRefreshTokens(rows, userId) ==
  [t \in DOMAIN rows |->
     IF rows[t].userId = userId /\ ~rows[t].revoked
     THEN [rows[t] EXCEPT !.revoked = TRUE] ELSE rows[t]]

\* AuthController.refreshToken: verify the signature, validateRefreshToken
RefreshTokenValidate(p) ==
  \E token \in 1..MaxTokens :
    /\ req[p] = Idle
    /\ Proceed(p, validateRefreshToken(token),
               InFlight("revoke", "refreshToken", Null,
                        IF token \in DOMAIN auth.refreshTokenRows
                        THEN auth.refreshTokenRows[token].userId ELSE Null,
                        token, NoLoan))
    /\ UNCHANGED <<users, userStatus, auth, emails, customerMerchant, loans, documents, auditLog,
                   kycDocs, response, appended>>

\* AuthController.refreshToken: revoke the old token
RefreshTokenRevoke(p) ==
  /\ req[p].pc = "revoke"
  /\ auth' = [auth EXCEPT !.refreshTokenRows = revokeRefreshToken(@, req[p].arg)]
  /\ req' = [req EXCEPT ![p] = [req[p] EXCEPT !.pc = "store"]]
  /\ UNCHANGED <<users, userStatus, emails, customerMerchant, loans, documents, auditLog,
                 kycDocs, response, appended>>

\* AuthController.refreshToken: store the new token and answer with it
RefreshTokenStore(p) ==
  /\ req[p].pc = "store"
  /\ Len(auth.refreshTokenRows) < MaxTokens
  /\ auth' = [auth EXCEPT !.refreshTokenRows = Append(@, RefreshTokenRow(req[p].userId))]
  /\ req' = [req EXCEPT ![p] = Idle]
  /\ UNCHANGED <<users, userStatus, emails, customerMerchant, loans, documents, auditLog,
                 kycDocs, response, appended>>

\* AuthController.logout with a stored token
Logout ==
  /\ \E token \in DOMAIN auth.refreshTokenRows :
       auth' = [auth EXCEPT !.refreshTokenRows = revokeRefreshToken(@, token)]
  /\ UNCHANGED <<users, userStatus, emails, customerMerchant, loans, documents, auditLog,
                 kycDocs, req, response, appended>>

\* UserService.resetPassword with a reset token of the user that is in force
ResetPassword ==
  /\ \E userId \in {"C1"} :
       auth' = [auth EXCEPT !.refreshTokenRows = revokeAllRefreshTokens(@, userId)]
  /\ UNCHANGED <<users, userStatus, emails, customerMerchant, loans, documents, auditLog,
                 kycDocs, req, response, appended>>

\* C1 has logged in once: one refresh token is stored
InitRefresh ==
  /\ users = UserIds \ {"N1"}
  /\ emails = [u \in UserIds \ {"N1"} |->
                 Email(CASE u = "M1" -> "m1" [] u = "M2" -> "m2" [] u = "C1" -> "c1"
                         [] u = "B1" -> "b1" [] u = "B2" -> "b2" [] OTHER -> "a1")]
  /\ customerMerchant = [c \in {"C1"} |-> "M1"]
  /\ userStatus = [u \in UserIds \ {"N1"} |-> "ACTIVE"]
  /\ auth = [NoAuth EXCEPT !.refreshTokens = {"C1"},
                           !.refreshTokenRows = <<RefreshTokenRow("C1")>>]
  /\ loans = << >>
  /\ documents = EmptyBag
  /\ auditLog = EmptyBag
  /\ kycDocs = SeedKycDocs
  /\ req = [p \in Procs |-> Idle]
  /\ response = NoResponse
  /\ appended = NoAppended

NextRefresh ==
  \/ \E p \in Procs :
       \/ RefreshTokenValidate(p) \/ RefreshTokenRevoke(p) \/ RefreshTokenStore(p)
  \/ Logout
  \/ ResetPassword

SpecRefresh == InitRefresh /\ [][NextRefresh]_vars

\* ------------------------------------------------------------------ listLoans
\* bankerProfile.pincode / customerProfile.pincode (null when absent; merchants
\* and bankers have no customer profile)
BankerPincode(bankerId) == IF bankerId = "B1" THEN "P1" ELSE Null
CustomerPincode(userId) == IF userId = "C1" THEN "P1" ELSE Null

NoFilter == ""
ListCallers == {"M1", "M2", "C1", "B1", "B2", "A1"}
ListFilters ==
  [ status : {NoFilter, "SUBMITTED", "UNDER_REVIEW"},
    merchantId : {NoFilter, "M1", "M2"},
    bankerId : {NoFilter, "B1"},
    paging : {[page |-> 1, limit |-> 20], [page |-> 2, limit |-> 1]} ]

\* the where clause: the role's scope first, then the caller's filters assigned
\* over it (a filter is applied when its value is truthy)
listLoansWhere(filters, userId, userRole) ==
  LET scope == [ merchantId |-> IF userRole = "MERCHANT" THEN userId ELSE NoFilter,
                 applicantId |-> IF userRole = "CUSTOMER" THEN userId ELSE NoFilter,
                 orBanker |-> IF userRole = "BANKER" THEN userId ELSE NoFilter,
                 status |-> NoFilter,
                 bankerId |-> NoFilter ]
  IN [scope EXCEPT
        !.status = IF filters.status # NoFilter THEN filters.status ELSE @,
        !.merchantId = IF filters.merchantId # NoFilter THEN filters.merchantId ELSE @,
        !.bankerId = IF filters.bankerId # NoFilter THEN filters.bankerId ELSE @]

\* faulty variant of listLoansMatches: the unassigned pool is not filtered by catchment
listLoansMatches_anyCatchment(row, where) ==
  /\ where.merchantId # NoFilter => row.merchantId = where.merchantId
  /\ where.applicantId # NoFilter => row.applicantId = where.applicantId
  /\ where.status # NoFilter => row.status = where.status
  /\ where.bankerId # NoFilter => row.bankerId = where.bankerId
  /\ where.orBanker # NoFilter =>
       \/ row.bankerId = where.orBanker
       \/ row.bankerId = Null

\* prisma's evaluation of the where clause on one row
listLoansMatches(row, where) ==
  /\ where.merchantId # NoFilter => row.merchantId = where.merchantId
  /\ where.applicantId # NoFilter => row.applicantId = where.applicantId
  /\ where.status # NoFilter => row.status = where.status
  /\ where.bankerId # NoFilter => row.bankerId = where.bankerId
  /\ where.orBanker # NoFilter =>
       \/ row.bankerId = where.orBanker
       \/ /\ row.bankerId = Null
          /\ BankerPincode(where.orBanker) # Null =>
               CustomerPincode(row.applicantId) = BankerPincode(where.orBanker)

RECURSIVE DescendingIds(_)
\* orderBy createdAt desc: the ids 1..n, newest first
DescendingIds(n) == IF n = 0 THEN << >> ELSE <<n>> \o DescendingIds(n - 1)

RECURSIVE SeqSelect(_, _, _)
\* the ids of ids whose rows match, in order
SeqSelect(ids, table, where) ==
  IF ids = << >> THEN << >>
  ELSE (IF listLoansMatches(table[Head(ids)], where) THEN <<Head(ids)>> ELSE << >>)
         \o SeqSelect(Tail(ids), table, where)

\* findMany({where, skip, take}) and count({where})
listLoans(filters, userId, userRole) ==
  LET where == listLoansWhere(filters, userId, userRole)
      matching == SeqSelect(DescendingIds(Len(loans)), loans, where)
      skip == (filters.paging.page - 1) * filters.paging.limit
      last == IF skip + filters.paging.limit < Len(matching)
              THEN skip + filters.paging.limit ELSE Len(matching)
  IN [ids |-> SubSeq(matching, skip + 1, last), total |-> Len(matching)]

\* the kycReadiness a loan is returned with: isKYCComplete of its applicant,
\* hinted by the loan type's code
loanKycReadiness(ln) ==
  isKYCComplete(ln.applicantId, Role(ln.applicantId), LoanTypes[ln.loanTypeId].code)

\* the kycReadiness of each row of a page, in the page's order
listKycReadiness(ids) == [i \in 1..Len(ids) |-> loanKycReadiness(loans[ids[i]])]

\* LoanService.listLoans(filters, userId, userRole)
ListLoans ==
  /\ response = NoResponse
  /\ \E userId \in ListCallers, filters \in ListFilters :
       response' = [op |-> "listLoans",
                    args |-> [userId |-> userId, filters |-> filters],
                    result |-> "ok",
                    listed |-> listLoans(filters, userId, Role(userId)),
                    kycReadiness |->
                      listKycReadiness(listLoans(filters, userId, Role(userId)).ids)]
  /\ UNCHANGED <<users, userStatus, auth, emails, customerMerchant, loans, documents, auditLog, kycDocs, req, appended>>

ListApplications == {app \in LifecycleApplications : app.loanTypeId = "LT1"}

NextList ==
  \/ ApplyForLoanBy(ListApplications, Merchants)
  \/ AssignBanker
  \/ CancelLoan
  \/ ListLoans
  \/ Respond

SpecList == Init /\ [][NextList]_vars

\* ------------------------------------------------------------------ getLoanById
\* the access rule of getLoanById
getLoanByIdResult(loanId, userId, userRole) ==
  IF GetLoan(loanId) = NoLoan THEN "NotFound"
  ELSE IF \/ userRole = "ADMIN"
          \/ loans[loanId].merchantId = userId
          \/ loans[loanId].applicantId = userId
          \/ loans[loanId].bankerId = userId
       THEN "ok" ELSE "AccessDenied"

\* faulty variant of GetLoanById: every successful read is recorded in the audit log
GetLoanById_recording ==
  /\ response = NoResponse
  /\ \E loanId \in 1..MaxLoans, userId \in ListCallers :
       /\ response' = [op |-> "getLoanById",
                       args |-> [loanId |-> loanId, userId |-> userId],
                       result |-> getLoanByIdResult(loanId, userId, Role(userId)),
                       kycReadiness |->
                         IF getLoanByIdResult(loanId, userId, Role(userId)) = "ok"
                         THEN loanKycReadiness(loans[loanId]) ELSE Null]
       /\ auditLog' =
            IF getLoanByIdResult(loanId, userId, Role(userId)) = "ok"
            THEN auditLog (+) SetToBag({[loanId |-> loanId, action |-> "LOAN_VIEWED",
                                         actorId |-> userId]})
            ELSE auditLog
  /\ UNCHANGED <<users, userStatus, auth, emails, customerMerchant, loans, documents, kycDocs, req,
                 appended>>

\* LoanService.getLoanById(loanId, userId, userRole)
GetLoanById ==
  /\ response = NoResponse
  /\ \E loanId \in 1..MaxLoans, userId \in ListCallers :
       response' = [op |-> "getLoanById",
                    args |-> [loanId |-> loanId, userId |-> userId],
                    result |-> getLoanByIdResult(loanId, userId, Role(userId)),
                    kycReadiness |->
                      IF getLoanByIdResult(loanId, userId, Role(userId)) = "ok"
                      THEN loanKycReadiness(loans[loanId]) ELSE Null]
  /\ UNCHANGED <<users, userStatus, auth, emails, customerMerchant, loans, documents, auditLog, kycDocs, req,
                 appended>>

\* ------------------------------------------------------------------ readiness drill
\* isKYCComplete applied to stored document tables: one document per type and
\* a second ID_PROOF, each in any status, the first owned by either user
ReadinessStatuses == {"UPLOADING", "PENDING", "VERIFIED", "REJECTED"}
ReadinessDocTypes ==
  [ K1 |-> "ID_PROOF", K2 |-> "ADDRESS_PROOF", K3 |-> "PAN_CARD", K4 |-> "BANK_STATEMENT",
    K5 |-> "ID_PROOF" ]
ReadinessTables ==
  { [k \in DOMAIN ReadinessDocTypes |->
       [userId |-> IF k = "K1" THEN owner ELSE "C1", type |-> ReadinessDocTypes[k],
        status |-> st[k], url |-> << >>, verifiedBy |-> Null]] :
      st \in [DOMAIN ReadinessDocTypes -> ReadinessStatuses], owner \in {"C1", "M1"} }

ReadinessUsers == {"C1", "M1"}
ReadinessRoles == {"CUSTOMER", "MERCHANT", "BANKER"}
ReadinessHints == {Null, "BUSINESS", "VEHICLE"}

InitReadiness ==
  /\ InitUsers
  /\ loans = << >>
  /\ documents = EmptyBag
  /\ auditLog = EmptyBag
  /\ kycDocs \in ReadinessTables
  /\ req = [p \in Procs |-> Idle]
  /\ response = NoResponse
  /\ appended = NoAppended

\* KYCService.isKYCComplete(userId, userRole, loanType)
IsKYCComplete ==
  /\ response = NoResponse
  /\ \E userId \in ReadinessUsers, userRole \in ReadinessRoles, loanType \in ReadinessHints :
       response' = [op |-> "isKYCComplete",
                    args |-> [userId |-> userId, userRole |-> userRole, loanType |-> loanType],
                    result |-> "ok",
                    readiness |-> isKYCComplete(userId, userRole, loanType)]
  /\ UNCHANGED <<users, userStatus, auth, emails, customerMerchant, loans, documents, auditLog, kycDocs, req,
                 appended>>

NextReadiness ==
  \/ IsKYCComplete
  \/ Respond

SpecReadiness == InitReadiness /\ [][NextReadiness]_vars

\* ------------------------------------------------------------------ read drill
\* the reads that report KYC readiness, between applications and document reviews
NextRead ==
  \/ ApplyForLoanBy(ListApplications, {"M1"})
  \/ VerifyKYCDocument
  \/ IsKYCComplete
  \/ GetLoanById
  \/ ListLoans
  \/ Respond

SpecRead == Init /\ [][NextRead]_vars

\* ------------------------------------------------------------------ required-documents drill
\* applications for the loan type that requires documents, while the
\* applicant's KYC documents are reviewed
RequiredDocApplications ==
  {app \in FullApplications :
     /\ app.loanTypeId = "LT2"
     /\ app.applicant.type = "merchant" \/ app.applicant.customerId = "C1"}

NextRequired ==
  \/ ApplyForLoan(RequiredDocApplications)
  \/ VerifyKYCDocument
  \/ Respond

SpecRequired == Init /\ [][NextRequired]_vars

\* ------------------------------------------------------------------ audit-failure drill
\* the lifecycle together with a re-upload of C1's verified ID_PROOF
AuditApplications ==
  {app \in LifecycleApplications :
     app.loanTypeId = "LT1" /\ app.documents = << >> /\ app.applicant.customerId = "C1"}

NextAudit ==
  \/ ApplyForLoan(AuditApplications)
  \/ AssignBanker
  \/ ApproveLoan
  \/ RejectLoan
  \/ DisburseLoan
  \/ CancelLoan
  \/ VerifyKYCDocument
  \/ Respond
  \/ CompleteUploadOf({"K1"}, {<<"C1", "/", "ID_PROOF", "/", "K1">>},
                      {1024}, {"image/jpeg"})

SpecAudit == Init /\ [][NextAudit]_vars

\* ------------------------------------------------------------------ disbursement drill
\* applications for C1 whose metadata may already carry a "disbursement" key
\* (the type has no schema: the client's object is stored as sent)
DisburseApplications ==
  [ applicant : {a \in ApplicantInputs : a.customerId = "C1"}, loanTypeId : {"LT1"},
    metadata : {ShopMetadata, ShopMetadata \cup {<<"disbursement", <<"client", "">>>>}},
    metadataValid : {TRUE}, documents : {<< >>} ]

NextDisburse ==
  \/ ApplyForLoan(DisburseApplications)
  \/ AssignBanker
  \/ ApproveLoan
  \/ DisburseLoan
  \/ VerifyKYCDocument
  \/ Respond

SpecDisburse == Init /\ [][NextDisburse]_vars

\* ================================================================== claims
LifecycleOps == {"assignBanker", "approveLoan", "rejectLoan", "disburseLoan", "cancelLoan"}

\* the edges of the state machine: the statuses an operation may leave
EdgeSources(op) ==
  CASE op = "assignBanker" -> {"SUBMITTED", "UNDER_REVIEW"}
    [] op = "approveLoan" -> {"UNDER_REVIEW"}
    [] op = "rejectLoan" -> {"UNDER_REVIEW"}
    [] op = "disburseLoan" -> {"APPROVED"}
    [] op = "cancelLoan" -> {"DRAFT", "SUBMITTED", "UNDER_REVIEW", "APPROVED"}

EdgeTarget(op) ==
  CASE op = "assignBanker" -> "UNDER_REVIEW"
    [] op = "approveLoan" -> "APPROVED"
    [] op = "rejectLoan" -> "REJECTED"
    [] op = "disburseLoan" -> "DISBURSED"
    [] op = "cancelLoan" -> "CANCELLED"
    [] op = "applyForLoan" -> "SUBMITTED"

AuditTag(op) ==
  CASE op = "assignBanker" -> "BANKER_ASSIGNED"
    [] op = "approveLoan" -> "LOAN_APPROVED"
    [] op = "rejectLoan" -> "LOAN_REJECTED"
    [] op = "disburseLoan" -> "LOAN_DISBURSED"
    [] op = "cancelLoan" -> "LOAN_CANCELLED"
    [] op = "applyForLoan" -> "LOAN_APPLIED"

\* the call answered by r has an actor its route admits and well-formed arguments
WellFormedCall(r, loan) ==
  CASE r.op = "assignBanker" -> r.args.bankerId \in Bankers
    [] r.op = "approveLoan" ->
         /\ r.args.userId \in Bankers
         /\ r.args.interestRate # NoRate
         /\ r.args.interestRate[1] > 0
    [] r.op = "rejectLoan" -> r.args.userId \in Bankers /\ r.args.text # ""
    [] r.op = "disburseLoan" -> r.args.userId \in Bankers /\ r.args.text # ""
    [] r.op = "cancelLoan" -> r.args.userId \in {loan.applicantId, loan.merchantId}

C2_TerminalAbsorbing ==
  [][ \A i \in DOMAIN loans :
        loans[i].status \in TerminalStatuses => loans'[i].status = loans[i].status ]_vars

C4_OnlyAssignedBanker ==
  [][ LET loan == GetLoan(response'.args.loanId)
      IN ( /\ response'.op \in {"approveLoan", "rejectLoan", "disburseLoan"}
           /\ loan # NoLoan
           /\ loan.bankerId \in Bankers
           /\ response'.args.userId # loan.bankerId )
         => ( /\ response'.result = "Forbidden"
              /\ loans' = loans ) ]_vars

HasAudit(loanId, action) ==
  \E row \in BagToSet(auditLog) : row.entityId = loanId /\ row.action = action

\* C5: no loan ever carries both a LOAN_APPROVED and a LOAN_REJECTED transition.
C5_OneWinner ==
  \A i \in DOMAIN loans : ~(HasAudit(i, "LOAN_APPROVED") /\ HasAudit(i, "LOAN_REJECTED"))

\* C6: when assignBanker's transaction writes, the loan's status at that moment
\* is SUBMITTED or UNDER_REVIEW.
C6_AssignAtomic ==
  [][ \A p \in Procs :
        ( /\ req[p].pc = "tx"
          /\ req[p].op = "assignBanker"
          /\ req'[p] = Idle
          /\ auditLog' # auditLog )
        => loans[req[p].loanId].status \in {"SUBMITTED", "UNDER_REVIEW"} ]_vars

LifecycleFields(row) == <<row.status, row.bankerId, row.interestRate, row.metadata>>

\* C7: a successful lifecycle call adds exactly one audit row, tagged for the
\* call and keyed by the loan, together with its loan write; any other step
\* leaves the audit trail and every loan's lifecycle fields as they are; no
\* audit row is ever changed or removed.
C7_AuditCompleteness ==
  [][ /\ \A row \in BagToSet(auditLog) : CopiesIn(row, auditLog') >= CopiesIn(row, auditLog)
      /\ IF response'.op \in LifecycleOps \cup {"applyForLoan"} /\ response'.result = "ok"
         THEN /\ \E row \in BagToSet(auditLog') :
                   /\ auditLog' = auditLog (+) SetToBag({row})
                   /\ row.action = AuditTag(response'.op)
                   /\ row.entityId = response'.args.loanId
                   /\ row.actorId = response'.args.userId
              /\ response'.args.loanId \in DOMAIN loans'
              /\ loans'[response'.args.loanId].status = EdgeTarget(response'.op)
         ELSE /\ auditLog' = auditLog
              /\ Len(loans') = Len(loans)
              /\ \A i \in DOMAIN loans :
                   LifecycleFields(loans'[i]) = LifecycleFields(loans[i]) ]_vars

\* C7 witness: an approval succeeded; the loan is APPROVED and carries one
\* LOAN_APPROVED row and one row per earlier transition.
C7_Witness ==
  /\ response.op = "approveLoan"
  /\ response.result = "ok"
  /\ GetLoan(response.args.loanId).status = "APPROVED"
  /\ BagCardinality(auditLog) = 3
  /\ \A tag \in {"LOAN_APPLIED", "BANKER_ASSIGNED", "LOAN_APPROVED"} :
       HasAudit(response.args.loanId, tag)

\* the identities under whose namespace the application may attach documents
Beneficiaries(app) ==
  CASE app.applicant.type = "existing" -> {app.applicant.customerId}
    [] app.applicant.type = "new" -> {"N1"}
    [] OTHER -> {}

\* the document is no object of the store, or lies in nobody's namespace
FailsVerification(doc, owners) ==
  \/ doc.publicId \notin CloudStore
  \/ \A id \in owners : doc.publicId[1] # id

C9_SpoofingResistance ==
  [][ ( /\ response'.op = "completeUpload"
        /\ response'.args.kycDocId \in DOMAIN kycDocs
        /\ response'.args.fileSize <= KycMaxFileSize
        /\ response'.args.contentType \in {"image/jpeg", "image/png", "application/pdf"} )
      => LET d == response'.args.kycDocId
             rebuilt == <<kycDocs[d].userId, "/", kycDocs[d].type, "/", d>>
         IN /\ response'.result = "ok"
            /\ kycDocs'[d].url = <<"res", "/">> \o rebuilt
            /\ response'.args.publicId # rebuilt
                 => kycDocs'[d].url # <<"res", "/">> \o response'.args.publicId ]_vars

\* C9 witness: a completion that sent another user's locator was accepted and
\* the document's stored locator is the rebuilt one.
C9_Witness ==
  /\ response.op = "completeUpload"
  /\ response.result = "ok"
  /\ response.args.kycDocId = "K1"
  /\ kycDocs["K1"].userId = "C1"
  /\ response.args.publicId = <<"M1", "/", "PAN_CARD", "/", "K2">>
  /\ kycDocs["K1"].url = <<"res", "/", "C1", "/", kycDocs["K1"].type, "/", "K1">>

\* C10: cancelLoan by a user who is neither the applicant nor the submitting
\* merchant fails with Forbidden in every status and writes nothing.
C10_CancelForbidden ==
  [][ LET loan == GetLoan(response'.args.loanId)
      IN ( /\ response'.op = "cancelLoan"
           /\ loan # NoLoan
           /\ response'.args.userId # loan.applicantId
           /\ response'.args.userId # loan.merchantId )
         => ( /\ response'.result = "Forbidden"
              /\ loans' = loans
              /\ auditLog' = auditLog ) ]_vars

\* C10 witness: a foreign merchant's cancellation of a loan already in a
\* terminal status was answered Forbidden.
C10_Witness ==
  /\ response.op = "cancelLoan"
  /\ response.result = "Forbidden"
  /\ response.args.userId = "M2"
  /\ GetLoan(response.args.loanId).status = "DISBURSED"

\* C11: a MERCHANT caller is listed only loans it submitted and a CUSTOMER
\* caller only loans it is the applicant of, whatever filters it supplies.
C11_RoleScopedVisibility ==
  response.op = "listLoans" =>
    \A k \in DOMAIN response.listed.ids :
      LET row == loans[response.listed.ids[k]]
          caller == response.args.userId
      IN /\ Role(caller) = "MERCHANT" => row.merchantId = caller
         /\ Role(caller) = "CUSTOMER" => row.applicantId = caller

\* C12: a loan has a banker exactly when its status is UNDER_REVIEW, APPROVED,
\* REJECTED or DISBURSED, or it is CANCELLED and was approved before.
C12_BankerIdInvariant ==
  \A i \in DOMAIN loans :
    (loans[i].bankerId # Null)
      <=> \/ loans[i].status \in {"UNDER_REVIEW", "APPROVED", "REJECTED", "DISBURSED"}
          \/ loans[i].status = "CANCELLED" /\ HasAudit(i, "LOAN_APPROVED")

\* C13: a loan carries an interestRate only while APPROVED or DISBURSED, and a
\* rate it carries is positive.
C13_InterestRateInvariant ==
  \A i \in DOMAIN loans :
    loans[i].interestRate # NoRate
      => /\ loans[i].status \in {"APPROVED", "DISBURSED"}
         /\ loans[i].interestRate[1] > 0

\* C14: when verifyKYCDocument has completed for a document of user u, every
\* open loan (SUBMITTED or UNDER_REVIEW) of applicant u has kycStatus VERIFIED
\* if u's readiness, computed from role alone, is complete and PENDING otherwise.
C14_CacheSync ==
  [][ ( /\ response'.op = "verifyKYCDocument"
        /\ response'.result = "ok" )
      => LET u == kycDocs[response'.args.kycDocId].userId
             complete == isKYCCompleteIn(kycDocs', u, Role(u), Null).complete
         IN \A i \in DOMAIN loans' :
              ( /\ loans'[i].applicantId = u
                /\ loans'[i].status \in {"SUBMITTED", "UNDER_REVIEW"} )
              => loans'[i].kycStatus = IF complete THEN "VERIFIED" ELSE "PENDING" ]_vars

\* C14 witness: the verification of C1's last missing document completed and
\* C1's loan under review has its cache at VERIFIED.
C14_Witness ==
  /\ response.op = "verifyKYCDocument"
  /\ response.result = "ok"
  /\ response.args.kycDocId = "K3"
  /\ kycDocs["K3"].status = "VERIFIED"
  /\ Len(loans) >= 1
  /\ loans[1].applicantId = "C1"
  /\ loans[1].status = "UNDER_REVIEW"
  /\ loans[1].kycStatus = "VERIFIED"

\* the required set as the definition gives it: the role's base set united
\* with the extras of the loan-type hint
RequiredSet(userRole, loanType) ==
  (CASE userRole = "CUSTOMER" -> {"ID_PROOF", "ADDRESS_PROOF", "PAN_CARD"}
     [] userRole = "MERCHANT" -> {"ID_PROOF", "ADDRESS_PROOF", "PAN_CARD", "BANK_STATEMENT"}
     [] OTHER -> {})
  \cup (CASE loanType = "BUSINESS" -> {"BANK_STATEMENT"}
          [] loanType = "VEHICLE" -> {"ADDRESS_PROOF"}
          [] loanType = "EQUIPMENT" -> {"BANK_STATEMENT"}
          [] OTHER -> {})

HasVerified(userId, type) ==
  \E k \in DOMAIN kycDocs :
    kycDocs[k].userId = userId /\ kycDocs[k].type = type /\ kycDocs[k].status = "VERIFIED"

\* C15: isKYCComplete answers complete exactly when every required type has a
\* VERIFIED document of the user, the empty required set included, and its
\* missingTypes are exactly the required types without one.
C15_CompletenessDefinition ==
  response.op = "isKYCComplete" =>
    LET required == RequiredSet(response.args.userRole, response.args.loanType)
        u == response.args.userId
    IN /\ response.readiness.complete <=> \A t \in required : HasVerified(u, t)
       /\ Range(response.readiness.missingTypes) = {t \in required : ~HasVerified(u, t)}

\* the required type tags no submitted document carries
MissingTags(app) ==
  Range(LoanTypes[app.loanTypeId].requiredDocuments)
    \ {app.documents[i].type : i \in DOMAIN app.documents}

\* C16: an application that lacks a document type its loan type requires is
\* refused and creates no Loan, Document or AuditLog row; when its metadata
\* validates, the error is the missing-documents error listing exactly the
\* missing types; the applicant's KYC document statuses play no part.
C16_RequiredDocuments ==
  [][ ( /\ response'.op = "applyForLoan"
        /\ response'.args.app.loanTypeId \in LoanTypeIds
        /\ MissingTags(response'.args.app) # {} )
      => ( /\ response'.result # "ok"
           /\ loans' = loans
           /\ documents' = documents
           /\ auditLog' = auditLog
           /\ ( \/ ~LoanTypes[response'.args.app.loanTypeId].hasSchema
                \/ response'.args.app.metadataValid )
              => ( /\ response'.result = "MissingDocuments"
                   /\ Range(response'.details.missingTypes)
                        = MissingTags(response'.args.app)
                   /\ Len(response'.details.missingTypes)
                        = Cardinality(MissingTags(response'.args.app)) ) ) ]_vars

\* C16 witness: an application carrying only an ID_PROOF for the type that
\* requires ID_PROOF and PAN_CARD was refused listing PAN_CARD, although the
\* customer's PAN_CARD is VERIFIED in KYC.
C16_Witness ==
  /\ response.op = "applyForLoan"
  /\ response.result = "MissingDocuments"
  /\ response.details.missingTypes = <<"PAN_CARD">>
  /\ Len(response.args.app.documents) = 1
  /\ response.args.app.documents[1].type = "ID_PROOF"
  /\ response.args.app.applicant.customerId = "C1"
  /\ kycDocs["K3"].status = "VERIFIED"
  /\ loans = << >>

OnBehalfOps == {"generateUploadUrlOnBehalf", "completeUploadOnBehalf"}

\* the owner of the document an on-behalf call is about (Null: no such document)
OnBehalfOwner(r) ==
  IF r.op = "generateUploadUrlOnBehalf" THEN r.args.targetUserId
  ELSE IF r.args.kycDocId \in DOMAIN kycDocs THEN kycDocs[r.args.kycDocId].userId
  ELSE Null

\* C17: an on-behalf call by a MERCHANT succeeds only for a CUSTOMER linked to
\* that merchant; BANKER and ADMIN actors are never refused as Forbidden; an
\* actor of any other role is refused, as Forbidden whenever the document owner
\* is known; a refused call leaves the KYC documents as they were.
C17_OnBehalfRule ==
  [][ response'.op \in OnBehalfOps
      => /\ ( Role(response'.args.actorUserId) = "MERCHANT" /\ response'.result = "ok" )
            => /\ OnBehalfOwner(response') \in Customers \cap users
               /\ OnBehalfOwner(response') \in DOMAIN customerMerchant
               /\ customerMerchant[OnBehalfOwner(response')] = response'.args.actorUserId
         /\ Role(response'.args.actorUserId) \in {"BANKER", "ADMIN"}
            => response'.result # "Forbidden"
         /\ Role(response'.args.actorUserId) \notin {"MERCHANT", "BANKER", "ADMIN"}
            => /\ response'.result # "ok"
               /\ OnBehalfOwner(response') # Null => response'.result = "Forbidden"
         /\ response'.result # "ok" => kycDocs' = kycDocs ]_vars

\* C17 witness: merchant M2 tried to complete the upload of a document that
\* belongs to C1, a customer of merchant M1, and was refused as Forbidden.
C17_Witness ==
  /\ response.op = "completeUploadOnBehalf"
  /\ response.args.actorUserId = "M2"
  /\ response.result = "Forbidden"
  /\ response.args.kycDocId \in DOMAIN kycDocs
  /\ kycDocs[response.args.kycDocId].userId = "C1"
  /\ customerMerchant["C1"] = "M1"
  /\ kycDocs[response.args.kycDocId].status = "UPLOADING"

\* C18: updateUserStatus called by an admin on the admin's own id is refused
\* (bad request or forbidden) whatever the status value, and the admin's
\* status stays as it was.
C18_NoSelfDemotion ==
  [][ ( /\ response'.op = "updateUserStatus"
        /\ response'.args.id = response'.args.adminId )
      => ( /\ response'.result \in {"Validation", "Forbidden"}
           /\ userStatus'[response'.args.adminId] = userStatus[response'.args.adminId] ) ]_vars

NotifyingOps == {"approveLoan", "rejectLoan", "disburseLoan"}

\* C19: approveLoan, rejectLoan and disburseLoan dispatch notifications only
\* after committing; whenever they dispatched, the call returned success, the
\* loan holds the new status and the audit row is in place, however many of
\* the notification inserts failed; a call that fails dispatched nothing; each
\* recipient is tried once.
C19_NotificationsNeverFail ==
  [][ response'.op \in NotifyingOps
      => /\ response'.result # "ok" => appended'.attempts = 0
         /\ appended'.attempts > 0
            => /\ response'.result = "ok"
               /\ loans'[response'.args.loanId].status = EdgeTarget(response'.op)
               /\ \E row \in BagToSet(auditLog') :
                    /\ auditLog' = auditLog (+) SetToBag({row})
                    /\ row.action = AuditTag(response'.op)
                    /\ row.entityId = response'.args.loanId
               /\ Len(appended'.notifications) <= appended'.attempts
               /\ appended'.attempts
                    = Cardinality({loans[response'.args.loanId].applicantId,
                                   loans[response'.args.loanId].merchantId}) ]_vars

\* C19 witness: an approval returned success with the loan APPROVED and its
\* audit row written although both notification inserts failed.
C19_Witness ==
  /\ response.op = "approveLoan"
  /\ response.result = "ok"
  /\ appended.attempts = 2
  /\ appended.notifications = << >>
  /\ GetLoan(response.args.loanId).status = "APPROVED"
  /\ HasAudit(response.args.loanId, "LOAN_APPROVED")

TransactionalOps == LifecycleOps \cup {"applyForLoan"}
KycAuditedOps == {"verifyKYCDocument", "completeUpload"}

KycEdges ==
  {<<"UPLOADING", "PENDING">>, <<"PENDING", "VERIFIED">>, <<"PENDING", "REJECTED">>}

\* C21: a KYC document's status changes only along UPLOADING -> PENDING and
\* PENDING -> VERIFIED | REJECTED: a document still UPLOADING is never reviewed
\* and a reviewed document is never taken back to PENDING.
C21_KycStatusLifecycle ==
  [][ \A k \in DOMAIN kycDocs :
        kycDocs'[k].status # kycDocs[k].status
          => <<kycDocs[k].status, kycDocs'[k].status>> \in KycEdges ]_vars

\* C22: a KYC document carries a reviewer reference only while it is VERIFIED;
\* a review with verdict REJECTED and a completed upload leave the document
\* without one.
C22_VerifierReference ==
  /\ \A k \in DOMAIN kycDocs :
       kycDocs[k].verifiedBy # Null => kycDocs[k].status = "VERIFIED"
  /\ ( /\ response.op = "verifyKYCDocument"
       /\ response.args.status = "REJECTED"
       /\ response.args.kycDocId \in DOMAIN kycDocs )
     => kycDocs[response.args.kycDocId].verifiedBy = Null
  /\ ( response.op = "completeUpload" /\ response.result = "ok" )
     => kycDocs[response.args.kycDocId].verifiedBy = Null

\* C22 witness: a review has just rejected document K1, which is REJECTED and
\* names no reviewer.
C22_Witness ==
  /\ response.op = "verifyKYCDocument"
  /\ response.result = "ok"
  /\ response.args.status = "REJECTED"
  /\ response.args.kycDocId = "K1"
  /\ kycDocs["K1"].status = "REJECTED"
  /\ kycDocs["K1"].verifiedBy = Null

\* the record disburseLoan writes for the call answered by r
DisbursementRecord(r) == <<"disbursement", <<r.args.text, r.args.notes>>>>

\* what a successful disburseLoan leaves alone and adds, apart from the
\* metadata pairs it keeps
DisburseFrame(r, old, new) ==
  /\ new.status = "DISBURSED"
  /\ [new EXCEPT !.status = old.status, !.metadata = old.metadata] = old
  /\ DisbursementRecord(r) \in new.metadata
  /\ new.metadata \subseteq old.metadata \cup {DisbursementRecord(r)}

\* C23 as stated: after a successful disburseLoan every key the metadata held
\* before is still there with the same value, the disbursement record has been
\* added, and nothing but status and metadata has changed.
C23_MetadataAdditive ==
  [][ ( response'.op = "disburseLoan" /\ response'.result = "ok" )
      => /\ DisburseFrame(response', loans[response'.args.loanId],
                          loans'[response'.args.loanId])
         /\ loans[response'.args.loanId].metadata
              \subseteq loans'[response'.args.loanId].metadata ]_vars

\* C23 amended: after a successful disburseLoan every key other than
\* "disbursement" is still there with the same value, the key "disbursement"
\* holds the new record and only that (a value the client stored under that key
\* is overwritten), and nothing but status and metadata has changed.
C23_MetadataMerged ==
  [][ ( response'.op = "disburseLoan" /\ response'.result = "ok" )
      => /\ DisburseFrame(response', loans[response'.args.loanId],
                          loans'[response'.args.loanId])
         /\ \A kv \in loans[response'.args.loanId].metadata :
              kv[1] # "disbursement" => kv \in loans'[response'.args.loanId].metadata
         /\ \A kv \in loans'[response'.args.loanId].metadata :
              kv[1] = "disbursement" => kv = DisbursementRecord(response') ]_vars

\* C23 witness: a disbursement succeeded; the loan is DISBURSED, keeps its
\* purpose, banker and rate, and carries the record with the reference given.
C23_Witness ==
  /\ response.op = "disburseLoan"
  /\ response.result = "ok"
  /\ GetLoan(response.args.loanId).status = "DISBURSED"
  /\ GetLoan(response.args.loanId).metadata
       = ShopMetadata \cup {<<"disbursement", <<"text", "text">>>>}
  /\ GetLoan(response.args.loanId).bankerId = response.args.userId
  /\ GetLoan(response.args.loanId).interestRate = <<12>>

\* the loan has been assigned more than once
Reassigned(loanId) ==
  \E row \in BagToSet(auditLog) :
    /\ row.entityId = loanId
    /\ row.action = "BANKER_ASSIGNED"
    /\ CopiesIn(row, auditLog) >= 2

\* C24: assigning a loan that is UNDER_REVIEW to another banker succeeds, keeps
\* the status and sets bankerId to the new banker; from then on approveLoan and
\* rejectLoan by any banker other than the one now assigned fail as Forbidden,
\* and the same calls by the banker now assigned are not refused as Forbidden.
C24_ReassignmentHandOver ==
  [][ /\ ( /\ response'.op = "assignBanker"
           /\ GetLoan(response'.args.loanId).status = "UNDER_REVIEW"
           /\ response'.result = "ok" )
         => /\ loans'[response'.args.loanId].status = "UNDER_REVIEW"
            /\ loans'[response'.args.loanId].bankerId = response'.args.bankerId
      /\ ( /\ response'.op \in {"approveLoan", "rejectLoan"}
           /\ response'.args.loanId \in DOMAIN loans
           /\ Reassigned(response'.args.loanId) )
         => IF response'.args.userId = loans[response'.args.loanId].bankerId
            THEN response'.result # "Forbidden"
            ELSE response'.result = "Forbidden" ]_vars

\* the preconditions of the edge the call answered by r asks for
PreconditionsHold(r, loan) ==
  /\ loan # NoLoan
  /\ loan.status \in EdgeSources(r.op)
  /\ WellFormedCall(r, loan)
  /\ r.op \in {"approveLoan", "rejectLoan", "disburseLoan"} => r.args.userId = loan.bankerId
  /\ r.op = "approveLoan"
     => isKYCComplete(loan.applicantId, Role(loan.applicantId), loanTypeHint(loan)).complete

\* C25: a lifecycle call whose preconditions hold succeeds and leaves the loan
\* in exactly the edge's target status; the one other outcome is a transaction
\* the store fails, which leaves the loan as it was.
C25_PreconditionSufficiency ==
  [][ ( /\ response'.op \in LifecycleOps
        /\ PreconditionsHold(response', GetLoan(response'.args.loanId)) )
      => /\ response'.result \in {"ok", "TxFailed"}
         /\ response'.result = "ok"
            => loans'[response'.args.loanId].status = EdgeTarget(response'.op)
         /\ response'.result = "TxFailed" => loans' = loans ]_vars

\* C25 witness: the submitting merchant cancelled a loan that had been
\* approved; the loan is CANCELLED.
C25_Witness ==
  /\ response.op = "cancelLoan"
  /\ response.result = "ok"
  /\ response.args.userId = GetLoan(response.args.loanId).merchantId
  /\ GetLoan(response.args.loanId).status = "CANCELLED"
  /\ HasAudit(response.args.loanId, "LOAN_APPROVED")

\* C26: while a user's status is SUSPENDED, REJECTED or DELETED no request of
\* that user is answered with a new access token, be it a password login, the
\* completion of a two-factor login or a refresh-token exchange.
C26_SuspendedNoCredentials ==
  [][ ( /\ response'.op \in {"login", "login2fa", "refreshToken"}
        /\ userStatus[response'.args.userId] \in {"SUSPENDED", "REJECTED", "DELETED"} )
      => response'.result # "ok" ]_vars

\* C27: a login while the lock is in force is answered with the locked error
\* and leaves counter and lock as they are, whatever the password; a wrong
\* password otherwise adds one to the counter and sets the lock once the counter
\* reaches five; a right password otherwise resets the counter and clears the lock.
C27_AccountLockout ==
  [][ response'.op = "login"
      => LET u == response'.args.userId
         IN IF auth.lockout[u] = "inForce"
            THEN response'.result = "Locked" /\ auth' = auth
            ELSE IF response'.args.passwordOk
              THEN /\ response'.result \notin {"Locked", "InvalidCredentials"}
                   /\ auth'.failedLoginAttempts[u] = 0
                   /\ auth'.lockout[u] = "none"
            ELSE /\ response'.result = "InvalidCredentials"
                 /\ auth'.failedLoginAttempts[u] = auth.failedLoginAttempts[u] + 1
                 /\ auth'.lockout[u] = "inForce" <=> auth'.failedLoginAttempts[u] >= 5
                 /\ auth'.refreshTokens = auth.refreshTokens ]_vars

\* C27 witness: after five wrong passwords the account is locked and a login
\* with the right password has been answered with the locked error.
C27_Witness ==
  /\ response.op = "login"
  /\ response.args.passwordOk
  /\ response.result = "Locked"
  /\ auth.failedLoginAttempts[response.args.userId] = 5
  /\ auth.lockout[response.args.userId] = "inForce"

\* the number of required types the user holds a VERIFIED document of
VerifiedOfRequired(r) ==
  Cardinality({t \in RequiredSet(r.args.userRole, r.args.loanType) :
                 HasVerified(r.args.userId, t)})

\* C28: percentComplete is the integer nearest to 100 * verified / required
\* (halves upwards) when types are required and 0 when none is; it lies in
\* 0..100; verifiedCount is the number of required types that are not missing;
\* and percentComplete is 100 exactly when types are required and none is missing.
C28_PercentComplete ==
  response.op = "isKYCComplete"
  => LET n == Cardinality(RequiredSet(response.args.userRole, response.args.loanType))
         v == VerifiedOfRequired(response)
         p == response.readiness.percentComplete
     IN /\ p \in 0..100
        /\ response.readiness.verifiedCount = v
        /\ v = n - Len(response.readiness.missingTypes)
        /\ n = 0 => p = 0
        /\ n > 0 => ( 2 * n * p <= 200 * v + n /\ 200 * v + n < 2 * n * (p + 1) )
        /\ p = 100 <=> ( n > 0 /\ response.readiness.missingTypes = << >> )

\* C28 witness: a customer with two of the three required types verified is
\* reported 67 percent complete.
C28_Witness ==
  /\ response.op = "isKYCComplete"
  /\ response.args.userRole = "CUSTOMER"
  /\ response.args.loanType = Null
  /\ response.readiness.verifiedCount = 2
  /\ response.readiness.percentComplete = 67

ReadOps == {"isKYCComplete", "getLoanById", "listLoans"}

\* the readiness a response of one of the reads carries
ReadinessOf(r) ==
  CASE r.op = "isKYCComplete" -> r.readiness
    [] r.op = "getLoanById" -> r.kycReadiness
    [] r.op = "listLoans" -> r.kycReadiness

\* the readiness the same call carries when it is made on the store as it is
\* found, which is the store a read leaves
RepeatedRead(r) ==
  CASE r.op = "isKYCComplete" ->
         isKYCComplete(r.args.userId, r.args.userRole, r.args.loanType)
    [] r.op = "getLoanById" ->
         IF getLoanByIdResult(r.args.loanId, r.args.userId, Role(r.args.userId)) = "ok"
         THEN isKYCComplete(loans[r.args.loanId].applicantId,
                            Role(loans[r.args.loanId].applicantId),
                            LoanTypes[loans[r.args.loanId].loanTypeId].code)
         ELSE Null
    [] r.op = "listLoans" ->
         LET ids == listLoans(r.args.filters, r.args.userId, Role(r.args.userId)).ids
         IN [i \in 1..Len(ids) |->
               isKYCComplete(loans[ids[i]].applicantId, Role(loans[ids[i]].applicantId),
                             LoanTypes[loans[ids[i]].loanTypeId].code)]

DecisionPreconditions(r) ==
  /\ r.args.loanId \in 1..Len(loans)
  /\ loans[r.args.loanId].bankerId = r.args.userId
  /\ loans[r.args.loanId].status =
       (IF r.op = "disburseLoan" THEN "APPROVED" ELSE "UNDER_REVIEW")

\* the argument of the call r that the operation requires is absent or not positive
BadArgument(r) ==
  CASE r.op = "approveLoan" ->
         \/ r.args.interestRate = NoRate
         \/ r.args.interestRate # NoRate /\ r.args.interestRate[1] <= 0
    [] r.op \in {"rejectLoan", "disburseLoan"} -> r.args.text = ""

C30_WitnessReject ==
  /\ response.op = "rejectLoan"
  /\ response.args.text = ""
  /\ DecisionPreconditions(response)
  /\ response.result = "Validation"

C30_WitnessApprove ==
  /\ response.op = "approveLoan"
  /\ response.args.interestRate = <<-1>>
  /\ DecisionPreconditions(response)
  /\ response.result = "Validation"

\* the loans a banker may see: its own, and the unassigned ones of its catchment
\* (all unassigned ones when its profile declares no pincode)
BankerSees(row, b) ==
  \/ row.bankerId = b
  \/ /\ row.bankerId = Null
     /\ \/ BankerPincode(b) = Null
        \/ CustomerPincode(row.applicantId) = BankerPincode(b)

NoFilters(f) == f.status = NoFilter /\ f.merchantId = NoFilter /\ f.bankerId = NoFilter

\* C31: every loan listLoans returns to a BANKER is assigned to that banker or is
\* unassigned and, when the banker declares a pincode, of an applicant in that
\* catchment; without filters the listing counts exactly those loans, and its
\* first page of twenty holds them all.
C31_BankerVisibility ==
  (response.op = "listLoans" /\ Role(response.args.userId) = "BANKER")
  => LET b == response.args.userId
         visible == {i \in DOMAIN loans : BankerSees(loans[i], b)}
         listed == {response.listed.ids[k] : k \in DOMAIN response.listed.ids}
     IN /\ listed \subseteq visible
        /\ NoFilters(response.args.filters) => response.listed.total = Cardinality(visible)
        /\ ( NoFilters(response.args.filters) /\ response.args.filters.paging.page = 1
             /\ response.args.filters.paging.limit = 20 ) => listed = visible

\* C31 witness: banker B1, whose catchment is P1, lists without filters while the
\* only loan is unassigned and of an applicant outside P1, and is returned nothing.
C31_Witness ==
  /\ response.op = "listLoans"
  /\ response.args.userId = "B1"
  /\ NoFilters(response.args.filters)
  /\ \E i \in DOMAIN loans :
       loans[i].bankerId = Null /\ CustomerPincode(loans[i].applicantId) # "P1"
  /\ response.listed.total = 0

\* the loan of another banker is withheld, and an unassigned loan of the
\* catchment is returned
C31_WitnessAssigned ==
  /\ response.op = "listLoans"
  /\ response.args.userId = "B1"
  /\ NoFilters(response.args.filters)
  /\ \E i \in DOMAIN loans : loans[i].bankerId = "B2"
  /\ response.listed.total = 0

C31_WitnessCatchment ==
  /\ response.op = "listLoans"
  /\ response.args.userId = "B1"
  /\ \E i \in DOMAIN loans :
       loans[i].bankerId = Null /\ CustomerPincode(loans[i].applicantId) = "P1"
  /\ response.listed.total = 1

\* the document has a locator in the namespace of one of the owners, and the
\* store's lookup finds the object
PassesVerification(doc, owners) ==
  /\ doc.publicId # << >>
  /\ doc.publicId[1] \in owners
  /\ doc.publicId \in CloudStore
  /\ doc.publicId \notin StoreFailures

C32_WitnessBeneficiary ==
  /\ response.op = "applyForLoan"
  /\ response.result = "ok"
  /\ response.args.app.applicant.customerId = "C1"
  /\ \E i \in DOMAIN response.args.app.documents :
       response.args.app.documents[i].publicId = <<"C1", "/", "b">>

C32_WitnessForeign ==
  /\ response.op = "applyForLoan"
  /\ response.result = "InvalidDocuments"
  /\ response.args.app.documents = <<[publicId |-> <<"M2", "/", "c">>, type |-> "ID_PROOF"]>>

\* C33: a verifyKYCDocument call changes no KYC document but the targeted one,
\* and of that one only status and verifier; it adds at most one KYC audit row,
\* of that document, and at most one notification, to the document's owner, and
\* exactly one notification when it succeeds; it adds no loan, loan document or
\* loan audit row; it changes nothing of a loan but kycStatus, and that only on
\* loans of the document's owner that are SUBMITTED or UNDER_REVIEW.
C33_VerifyFrame ==
  [][ (response = NoResponse /\ response'.op = "verifyKYCDocument")
      => LET k == response'.args.kycDocId
         IN /\ DOMAIN kycDocs' = DOMAIN kycDocs
            /\ \A d \in DOMAIN kycDocs :
                 /\ d # k => kycDocs'[d] = kycDocs[d]
                 /\ kycDocs'[d] = [kycDocs[d] EXCEPT !.status = kycDocs'[d].status,
                                                     !.verifiedBy = kycDocs'[d].verifiedBy]
            /\ Len(appended'.kycAudit) <= 1
            /\ \A i \in DOMAIN appended'.kycAudit : appended'.kycAudit[i].kycDocId = k
            /\ Len(appended'.notifications) <= 1
            /\ \A i \in DOMAIN appended'.notifications :
                 k \in DOMAIN kycDocs /\ appended'.notifications[i].userId = kycDocs[k].userId
            /\ response'.result = "ok" => Len(appended'.notifications) = 1
            /\ documents' = documents
            /\ auditLog' = auditLog
            /\ Len(loans') = Len(loans)
            /\ \A i \in DOMAIN loans :
                 /\ loans'[i] = [loans[i] EXCEPT !.kycStatus = loans'[i].kycStatus]
                 /\ loans'[i].kycStatus # loans[i].kycStatus
                    => /\ k \in DOMAIN kycDocs
                       /\ loans[i].applicantId = kycDocs[k].userId
                       /\ loans[i].status \in {"SUBMITTED", "UNDER_REVIEW"} ]_vars

\* C33 witness: the review that completed C1's documents succeeded while C1's
\* loan was CANCELLED, and the loan's cache still reads PENDING.
C33_Witness ==
  /\ response.op = "verifyKYCDocument"
  /\ response.result = "ok"
  /\ response.args.kycDocId = "K3"
  /\ kycDocs["K3"].status = "VERIFIED"
  /\ \E i \in DOMAIN loans :
       /\ loans[i].applicantId = "C1"
       /\ loans[i].status = "CANCELLED"
       /\ loans[i].kycStatus = "PENDING"

\* C34: a failed applyForLoan for a new inline customer leaves the users, their
\* e-mail addresses and the customer-to-merchant links as they were.
C34_FailedApplicationKeepsUsers ==
  [][ ( /\ response = NoResponse
        /\ response'.op = "applyForLoan"
        /\ response'.args.app.applicant.type = "new"
        /\ response'.result # "ok" )
      => /\ users' = users
         /\ emails' = emails
         /\ customerMerchant' = customerMerchant ]_vars

\* C35: every loan that is SUBMITTED or UNDER_REVIEW and whose kycStatus reads
\* VERIFIED has an applicant whose readiness, computed from the role, is complete.
C35_CacheNeverOverstates ==
  \A i \in DOMAIN loans :
    ( /\ loans[i].status \in {"SUBMITTED", "UNDER_REVIEW"}
      /\ loans[i].kycStatus = "VERIFIED" )
    => isKYCComplete(loans[i].applicantId, Role(loans[i].applicantId), Null).complete

\* C36: no loan carries both a LOAN_DISBURSED and a LOAN_CANCELLED audit row,
\* whatever the interleaving of the steps of cancelLoan and disburseLoan.
C36_CancelDisburseExclusive ==
  \A i \in DOMAIN loans : ~(HasAudit(i, "LOAN_DISBURSED") /\ HasAudit(i, "LOAN_CANCELLED"))

\* C37: whenever a step writes status APPROVED onto a loan, the applicant's
\* readiness, computed with the loan type's hint on the documents as they are at
\* that moment, is complete.
C37_KycGateAtCommit ==
  [][ \A i \in DOMAIN loans :
        ( /\ i \in DOMAIN loans'
          /\ loans'[i].status = "APPROVED"
          /\ loans[i].status # "APPROVED" )
        => isKYCComplete(loans[i].applicantId, Role(loans[i].applicantId),
                         loanTypeHint(loans[i])).complete ]_vars

\* C38: a completeUpload that succeeds with exactly the publicId generateUploadUrl
\* issued for the document, the one its row was created with, leaves the row's
\* locator as it was recorded at generation.
C38_LocatorRoundTrip ==
  [][ ( /\ response = NoResponse
        /\ response'.op = "completeUpload"
        /\ response'.result = "ok"
        /\ kycDocs[response'.args.kycDocId].status = "UPLOADING"
        /\ kycDocs[response'.args.kycDocId].url = UrlOf(response'.args.publicId) )
      => kycDocs'[response'.args.kycDocId].url = kycDocs[response'.args.kycDocId].url ]_vars

\* the refresh tokens that can still be exchanged
LiveTokens == {t \in DOMAIN auth.refreshTokenRows : ~auth.refreshTokenRows[t].revoked}

\* C39: a refresh token is exchanged at most once. In a session that began with
\* one stored token every further row is the successor an exchange stored while
\* revoking its parent, so at most one token is live at any time, whatever the
\* interleaving of exchanges, logouts and password resets.
C39_SingleUseRotation == Cardinality(LiveTokens) <= 1

====
